---------------------------- MODULE Spec2Model ----------------------------
(***************************************************************************)
(* Model of the train stopping simulator of src/tasc/server.py             *)
(* (class StoppingSim, its Vehicle / Scenario / State records and the      *)
(* command handlers of recv_loop).                                         *)
(*                                                                         *)
(* Numbers.  The program computes in IEEE doubles; the model computes in   *)
(* fixed point:                                                            *)
(*   time                       1 unit = 1 ms                              *)
(*   position / distance        1 unit = 0.1 mm   (10000 per m)            *)
(*   velocity                   1 unit = 0.1 mm/s (10000 per m/s)          *)
(*   acceleration               1 unit = 0.1 mm/s^2                        *)
(*   speed in km/h              1 unit = 0.0001 km/h                       *)
(*   blend weight, factors      per mille / per ten-thousand as noted      *)
(* Every quotient is rounded to the nearest unit (RDiv).                   *)
(***************************************************************************)
EXTENDS Integers, Sequences, FiniteSets, TLC

VARIABLES
    st,      \* the State dataclass instance (sim.state)
    sim,     \* the remaining fields of the StoppingSim instance
    scn,     \* the Scenario instance (sim.scn)
    vehFile, \* which vehicle file sim.veh was loaded from
    obs,     \* observation of the last handler that ran (history variable)
    tasks,   \* "running" while recv_loop, sim_loop and send_loop run,
             \* "cancelled" once ws_endpoint has cancelled them
    loop     \* the local variables of sim_loop, the wall clock time.time()
             \* and the time at which sim_loop's sleep ends

vars == <<st, sim, scn, vehFile, obs, tasks, loop>>

-----------------------------------------------------------------------------
(* Arithmetic helpers *)

Abs(x) == IF x < 0 THEN -x ELSE x
Max(a, b) == IF a >= b THEN a ELSE b
Min(a, b) == IF a <= b THEN a ELSE b

\* a / b rounded to the nearest integer (b > 0), halves away from zero
RDiv(a, b) == IF a >= 0 THEN (2 * a + b) \div (2 * b) ELSE -((2 * (-a) + b) \div (2 * b))

\* int(x) of Python for the quotient a / b (b > 0): truncation toward zero
TruncDiv(a, b) == IF a >= 0 THEN a \div b ELSE -((-a) \div b)

\* float('inf') as returned by _stopping_distance; larger than any distance
Inf == 2000000000

\* v * 3.6, in 0.0001 km/h
Kmh(v) == RDiv(v * 36, 10)

-----------------------------------------------------------------------------
(* Vehicle files.  "A" is Vehicle.from_json with every key at its default  *)
(* and the mass set as ws_endpoint does (10 cars, load rate 0.70); "B" is a *)
(* second file with fewer notches, a lighter car and a higher jerk limit.  *)
(* notch_accels is stored reversed, as ws_endpoint stores it: index 0 is   *)
(* neutral and index notches-1 the emergency brake.  Neither file gives    *)
(* T_max_kN / P_max_kW, so compute_power_accel takes its fallback curve.   *)

VehicleA ==
    [ notch_accels         |-> <<0, -2000, -3500, -5000, -6500, -8000, -9500, -11000, -15000>>,
      forward_notch_accels |-> <<2500, 2870, 3780, 5150, 6940>>,
      notches   |-> 9,
      a_max     |-> 10000,
      j_max     |-> 8000,
      tau_cmd   |-> 150,
      tau_brk   |-> 250,
      maxSpeed_kmh |-> 1400000,
      mass_kg   |-> 2073500,
      A0        |-> 34580,      \* N
      B1x10     |-> 4147,       \* 0.1 N s/m
      C2x100    |-> 640 ]       \* 0.01 N s^2/m^2

VehicleB ==
    [ notch_accels         |-> <<0, -3000, -6000, -9000, -14000>>,
      forward_notch_accels |-> <<3000, 6000>>,
      notches   |-> 5,
      a_max     |-> 10000,
      j_max     |-> 50000,
      tau_cmd   |-> 150,
      tau_brk   |-> 250,
      maxSpeed_kmh |-> 1200000,
      mass_kg   |-> 473500,
      A0        |-> 7897,
      B1x10     |-> 947,
      C2x100    |-> 640 ]

VehicleFiles == {"A", "B"}

\* files that make the try block of the setVehicleFile handler raise:
\* "missing" fails os.path.isfile (line 2033), "unreadable" makes json.load
\* raise in Vehicle.from_json (line 2036), and "nopower" is file "B" with
\* "P_max_kW": null, which loads and makes calibrate_C2_from_power raise
\* (`None <= 0`, line 69, called at line 2049)
FailingFiles == {"missing", "unreadable", "nopower"}

Vehicle(f) == IF f \in {"B", "nopower"} THEN VehicleB ELSE VehicleA

veh == Vehicle(vehFile)

-----------------------------------------------------------------------------
(* Braking, grade and running resistance *)

\* StoppingSim._effective_brake_accel
effective_brake_accel(vh, sc, notch, v) ==
    IF notch <= 0 THEN 0
    ELSE IF notch >= Len(vh.notch_accels) THEN 0
    ELSE LET base  == vh.notch_accels[notch + 1]
             is_eb == (notch = vh.notches - 1)
             k_adh == IF is_eb THEN 98 ELSE 85
             a_cap == -RDiv(k_adh * sc.mu * 981, 100)
             a_eff == Max(base, a_cap)
         IN  IF a_eff <= a_cap
             THEN RDiv(a_cap * (IF v > 80000 THEN 90 ELSE 85), 100)
             ELSE a_eff

\* StoppingSim._grade_accel; grade is kept in per mille (grade_percent * 10)
grade_accel(sc) == -RDiv(981 * sc.grade_permille, 10)

\* StoppingSim._davis_accel (rr_factor is 1.0 throughout the program)
davis_accel(vh, v) ==
    IF v < 100 THEN 0
    ELSE LET v_cm == RDiv(v, 100)
             v_dm == RDiv(v, 1000)
             F    == vh.A0 + RDiv(vh.B1x10 * v_cm, 1000) + RDiv(vh.C2x100 * v_dm * v_dm, 10000)
         IN  -RDiv(F * 10000, vh.mass_kg)

\* StoppingSim._blend_w_regen, per mille
blend_w_regen(v) ==
    LET v_kmh == Kmh(v)
    IN  IF v_kmh >= 200000 THEN 1000
        ELSE IF v_kmh <= 80000 THEN 0
        ELSE RDiv((v_kmh - 80000) * 1000, 120000)

\* One first-order lag step x += (target - x) * (dt / tau)
Lag(x, target, dt, tau) == x + RDiv((target - x) * dt, tau)

\* StoppingSim._update_brake_dyn_split on the pair (brk_elec, brk_air);
\* brk_accel is their sum
update_brake_dyn_split(brk_elec, brk_air, a_total_cmd, v, is_eb, dt) ==
    LET w       == blend_w_regen(v)
        a_cmd_e == RDiv(a_total_cmd * w, 1000)
        a_cmd_a == RDiv(a_total_cmd * (1000 - w), 1000)
        e_fast  == Kmh(v) >= 150000
        a_slow  == Kmh(v) < 100000
        tau_e_apply == IF e_fast THEN 180 ELSE 300
        tau_e_rel   == IF e_fast THEN 400 ELSE 500
        tau_a_apply == IF is_eb THEN 150 ELSE IF a_slow THEN 450 ELSE 300
        tau_a_rel   == IF is_eb THEN 450 ELSE IF a_slow THEN 750 ELSE 600
        tau_e   == IF a_cmd_e < brk_elec THEN tau_e_apply ELSE tau_e_rel
        tau_a   == IF a_cmd_a < brk_air THEN tau_a_apply ELSE tau_a_rel
        e2      == Lag(brk_elec, a_cmd_e, dt, tau_e)
        a2      == Lag(brk_air, a_cmd_a, dt, tau_a)
    IN  [brk_elec |-> e2, brk_air |-> a2, brk_accel |-> e2 + a2]

\* _wsp_update restoring the brake in one stage: release ends in normal
wsp_update_one_stage(sc, wsp_state, wsp_timer, v, a_demand, dt) ==
    LET a_cap  == -RDiv(85 * sc.mu * 981, 100)
        margin == 500
    IN  IF wsp_state = "normal"
        THEN IF a_demand < a_cap - margin /\ Kmh(v) > 30000
             THEN [out |-> Min(a_demand, RDiv(a_cap * 5, 10)), wsp_state |-> "release", wsp_timer |-> 120]
             ELSE [out |-> a_demand, wsp_state |-> wsp_state, wsp_timer |-> wsp_timer]
        ELSE IF wsp_state = "release"
        THEN IF wsp_timer - dt <= 0
             THEN [out |-> Min(a_demand, RDiv(a_cap * 3, 10)), wsp_state |-> "normal", wsp_timer |-> 0]
             ELSE [out |-> Min(a_demand, RDiv(a_cap * 3, 10)), wsp_state |-> "release", wsp_timer |-> wsp_timer - dt]
        ELSE IF wsp_timer - dt <= 0
             THEN [out |-> Min(a_demand, RDiv(a_cap * 8, 10)), wsp_state |-> "normal", wsp_timer |-> wsp_timer - dt]
             ELSE [out |-> Min(a_demand, RDiv(a_cap * 8, 10)), wsp_state |-> "reapply", wsp_timer |-> wsp_timer - dt]

\* StoppingSim._wsp_update: the limited brake acceleration and the new
\* wheel-slip-protection state and timer
wsp_update(sc, wsp_state, wsp_timer, v, a_demand, dt) ==
    LET a_cap  == -RDiv(85 * sc.mu * 981, 100)
        margin == 500
    IN  IF wsp_state = "normal"
        THEN IF a_demand < a_cap - margin /\ Kmh(v) > 30000
             THEN [out |-> Min(a_demand, RDiv(a_cap * 5, 10)), wsp_state |-> "release", wsp_timer |-> 120]
             ELSE [out |-> a_demand, wsp_state |-> wsp_state, wsp_timer |-> wsp_timer]
        ELSE IF wsp_state = "release"
        THEN IF wsp_timer - dt <= 0
             THEN [out |-> Min(a_demand, RDiv(a_cap * 3, 10)), wsp_state |-> "reapply", wsp_timer |-> 150]
             ELSE [out |-> Min(a_demand, RDiv(a_cap * 3, 10)), wsp_state |-> "release", wsp_timer |-> wsp_timer - dt]
        ELSE IF wsp_timer - dt <= 0
             THEN [out |-> Min(a_demand, RDiv(a_cap * 8, 10)), wsp_state |-> "normal", wsp_timer |-> wsp_timer - dt]
             ELSE [out |-> Min(a_demand, RDiv(a_cap * 8, 10)), wsp_state |-> "reapply", wsp_timer |-> wsp_timer - dt]

-----------------------------------------------------------------------------
(* Traction *)

\* 2.71828 ** (-3 * t) for t = t1000 / 1000, in 1/10000: the program's
\* values at t = 0, 1/8, ..., 1, linearly interpolated in between and held
\* beyond t = 1 (a speed above maxSpeed_kmh)
ExpNeg3(t1000) ==
    LET tab == <<10000, 6873, 4724, 3247, 2231, 1534, 1054, 724, 498>>
        k   == t1000 \div 125
    IN  IF t1000 <= 0 THEN 10000
        ELSE IF k >= 8 THEN 498
        ELSE tab[k + 1] - RDiv((tab[k + 1] - tab[k + 2]) * (t1000 - 125 * k), 125)

\* StoppingSim.compute_power_accel, the fallback curve taken when the vehicle
\* has no T_max_kN / P_max_kW rating (lines 1003-1045)
compute_power_accel(vh, lever_notch, v) ==
    IF lever_notch >= 0 THEN 0
    ELSE LET n_notches   == Len(vh.forward_notch_accels)
             idx         == Max(0, Min(-lever_notch - 1, n_notches - 1))
             base_accel  == vh.forward_notch_accels[idx + 1]
             v_kmh       == Kmh(v)
             max_v_kmh   == Max(10000, vh.maxSpeed_kmh)
             flat_ends   == <<50000, 200000, 320000, 330000, 330000>>
             exp_starts  == <<300000, 330000, 540000, 540000, 540000>>
             min_factors == <<3, 400, 700, 1400, 2700>>
             i           == Min(idx, 4) + 1
             s_k         == flat_ends[i]
             e_k         == exp_starts[i]
             min_factor  == min_factors[i]
             mid_factor  == Min(10000, Max(min_factor, 3500 + 1000 * idx))
             \* t of the linear region in 1/10000, of the tail in 1/1000; the
             \* table entries are whole km/h, so the spans divide by 10
             t_lin       == RDiv((v_kmh - s_k) * 1000, (e_k - s_k) \div 10)
             t_exp       == IF max_v_kmh - e_k < 10 THEN 1000
                            ELSE RDiv((v_kmh - e_k) * 100, (max_v_kmh - e_k) \div 10)
             factor ==
                IF v_kmh <= s_k THEN 10000
                ELSE IF v_kmh <= e_k
                THEN Max(10000 - RDiv((10000 - mid_factor) * t_lin, 10000), min_factor)
                ELSE Max(RDiv((mid_factor - min_factor) * ExpNeg3(t_exp), 10000)
                         + min_factor, min_factor)
         IN  RDiv(base_accel * Min(10000, factor), 10000)

\* StoppingSim._clamp_notch
clamp_notch(vh, n) ==
    LET min_notch == -Len(vh.forward_notch_accels)
        max_notch == Len(vh.notch_accels) - 2
    IN  Max(min_notch, Min(max_notch, n))

-----------------------------------------------------------------------------
(* The acceleration pipeline shared by step() and the predictor: filter,   *)
(* jerk limit, integration.                                                *)

\* the jerk limiter of step() (lines 1395-1408) and of the predictor
\* (lines 1171-1182): the change of a toward a_cmd_filt, capped at max_da
JerkLimited(a, a_cmd_filt, max_da) ==
    LET da == a_cmd_filt - a
    IN  a + (IF da > max_da THEN max_da ELSE IF da < -max_da THEN -max_da ELSE da)

\* j_max * dt, relaxed at low speed: scale = 0.25 + 0.75 * (v_kmh / 5.0)
MaxDa(vh, v, dt, relax) ==
    LET full  == RDiv(vh.j_max * dt, 1000)
        v_kmh == Kmh(v)
    IN  IF relax /\ v_kmh <= 50000
        THEN RDiv(full * (2500 + RDiv(7500 * v_kmh, 50000)), 10000)
        ELSE full

\* IntegrateV without the floor
IntegrateV_unfloored(v, a, dt) == v + RDiv(a * dt, 1000)

\* v + a * dt, floored at 0 (line 1411, line 1184)
IntegrateV(v, a, dt) == Max(0, v + RDiv(a * dt, 1000))

\* the position increment v * dt + 0.5 * a * dt * dt with the NEW velocity
\* (line 1412, line 1185)
PositionStep(v_new, a, dt) == RDiv(v_new * dt, 1000) + RDiv(RDiv(a * dt, 1000) * dt, 2000)

-----------------------------------------------------------------------------
(* Fields of StoppingSim that __init__ sets and nothing changes *)

\* self.tasc_takeover_rem_m = 250.0
tasc_takeover_rem_m == 2500000
\* self.tasc_takeover_hyst_m = 1
tasc_takeover_hyst_m == 10000
\* self.tasc_deadband_m = 0.05
tasc_deadband_m == 500
\* self.tasc_hold_min_s = 0.05
tasc_hold_min_s == 50
\* self.tasc_relax_margin_m = test_margin = 0
tasc_relax_margin_m == 0
\* self.tasc_relax_hold_s = 0
tasc_relax_hold_s == 0
\* self._tasc_pred_interval = 0.1
tasc_pred_interval == 100
\* self._tasc_speed_eps = 0.5
tasc_speed_eps == 5000
\* test_notch = 3
test_notch == 3

\* Optional[...] values: None is the empty sequence, a value x is <<x>>
None == <<>>
Some(x) == <<x>>

-----------------------------------------------------------------------------
(* The stopping predictor *)

\* dt of the rollout (line 1059), in ms
PredDt == 30

\* the hard iteration cap of the rollout (line 1078)
PredIterCap == 2400

\* the wheel-slip stage as the predictor inlines it (lines 1107-1125)
pred_wsp(sc, wsp_state, wsp_timer, v, a_brake, dt) ==
    LET a_cap  == -RDiv(85 * sc.mu * 981, 100)
        margin == 500
    IN  IF wsp_state = "normal"
        THEN IF a_brake < a_cap - margin /\ Kmh(v) > 30000
             THEN [out |-> Min(a_brake, RDiv(a_cap * 5, 10)), wsp_state |-> "release", wsp_timer |-> 120]
             ELSE [out |-> a_brake, wsp_state |-> wsp_state, wsp_timer |-> wsp_timer]
        ELSE IF wsp_state = "release"
        THEN IF wsp_timer - dt <= 0
             THEN [out |-> Min(a_brake, RDiv(a_cap * 3, 10)), wsp_state |-> "reapply", wsp_timer |-> 150]
             ELSE [out |-> Min(a_brake, RDiv(a_cap * 3, 10)), wsp_state |-> "release", wsp_timer |-> wsp_timer - dt]
        ELSE IF wsp_timer - dt <= 0
             THEN [out |-> Min(a_brake, RDiv(a_cap * 8, 10)), wsp_state |-> "normal", wsp_timer |-> 0]
             ELSE [out |-> Min(a_brake, RDiv(a_cap * 8, 10)), wsp_state |-> "reapply", wsp_timer |-> wsp_timer - dt]

\* lines 1086-1105 of the rollout: the brake blend of one iteration
pred_brake(vh, sc, notch, r) ==
    update_brake_dyn_split(r.brk_elec, r.brk_air, effective_brake_accel(vh, sc, notch, r.v),
                           r.v, notch = vh.notches - 1, PredDt)

\* lines 1081-1084, 1127-1132, 1147, 1166-1167: the target acceleration of
\* one iteration, from the wheel-slip-limited brake acceleration a_brake
pred_target(vh, sc, notch, rem_now, r, a_brake) ==
    LET pwr_accel == IF notch < 0 THEN compute_power_accel(vh, notch, r.v) ELSE 0
        a_free    == grade_accel(sc) + davis_accel(vh, r.v)
        a_sum     == IF notch = 0 THEN a_free ELSE pwr_accel + a_brake + a_free
        rem_pred  == Max(0, rem_now - r.s)
    IN  IF notch = 1 \/ rem_pred <= 0 THEN Min(a_sum, 0) ELSE a_sum

\* lines 1171-1190: jerk limit, integration and the two breaks, from the
\* brake blend b, the wheel-slip stage ws and the filtered command filt
pred_integrate(vh, rem_now, r, b, ws, filt) ==
    LET a2 == JerkLimited(r.a, filt, MaxDa(vh, r.v, PredDt, TRUE))
        v2 == IntegrateV(r.v, a2, PredDt)
        s2 == r.s + PositionStep(v2, a2, PredDt)
    IN  [ v |-> v2, a |-> a2, s |-> s2, k |-> r.k + 1,
          brk_elec |-> b.brk_elec, brk_air |-> b.brk_air,
          wsp_state |-> ws.wsp_state, wsp_timer |-> ws.wsp_timer,
          a_cmd_filt |-> filt,
          done |-> (v2 <= 100 \/ s2 > rem_now + 80000) ]

\* line 1169: the command filter of one iteration
pred_filter(vh, sc, notch, rem_now, r, b, ws) ==
    pred_integrate(vh, rem_now, r, b, ws,
                   Lag(r.a_cmd_filt, pred_target(vh, sc, notch, rem_now, r, ws.out), PredDt, vh.tau_brk))

\* lines 1107-1125: the wheel-slip stage of one iteration
pred_slip(vh, sc, notch, rem_now, r, b) ==
    pred_filter(vh, sc, notch, rem_now, r, b,
                pred_wsp(sc, r.wsp_state, r.wsp_timer, r.v, b.brk_accel, PredDt))

\* one iteration of the loop of _estimate_stop_distance (lines 1078-1190);
\* r is the rollout's local state, r.k counts the iterations made and r.done
\* is set where the loop breaks
PredIter(vh, sc, notch, rem_now, r) ==
    pred_slip(vh, sc, notch, rem_now, r, pred_brake(vh, sc, notch, r))

\* at most n iterations of the loop from the local state r, stopping where
\* the loop breaks; the n iterations are evaluated half by half
RECURSIVE PredRun(_, _, _, _, _, _)
PredRun(vh, sc, notch, rem_now, r, n) ==
    IF n = 0 \/ r.done THEN r
    ELSE IF n = 1 THEN PredIter(vh, sc, notch, rem_now, r)
    ELSE PredRun(vh, sc, notch, rem_now, PredRun(vh, sc, notch, rem_now, r, n \div 2), n - (n \div 2))

\* rollout_start with the brake blend, the WSP state and the filter of a
\* simulation that was just reset
rollout_start_reset(w, v0) ==
    [ v |-> Max(0, v0), a |-> w.st.a, s |-> 0, k |-> 0,
      brk_elec |-> 0, brk_air |-> 0,
      wsp_state |-> "normal", wsp_timer |-> 0,
      a_cmd_filt |-> 0, done |-> FALSE ]

\* the locals of _estimate_stop_distance before its loop (lines 1059-1070):
\* the rollout starts from the CURRENT acceleration, brake blend, WSP state
\* and command filter
rollout_start(w, v0) ==
    [ v |-> Max(0, v0), a |-> w.st.a, s |-> 0, k |-> 0,
      brk_elec |-> w.sim.brk_elec, brk_air |-> w.sim.brk_air,
      wsp_state |-> w.sim.wsp_state, wsp_timer |-> w.sim.wsp_timer,
      a_cmd_filt |-> w.sim.a_cmd_filt, done |-> FALSE ]

\* the locals of _estimate_stop_distance after its loop (lines 1078-1190)
rollout_end(w, notch, v0) ==
    PredRun(w.veh, w.scn, notch, w.scn.L - w.st.s, rollout_start(w, v0), PredIterCap)

\* StoppingSim._estimate_stop_distance(notch, v0) in the simulation w =
\* [st, sim, scn, veh]
estimate_stop_distance(w, notch, v0) ==
    LET v         == Max(0, v0)
        ctrl_delay == Max(tasc_pred_interval, tasc_hold_min_s)
        latency_margin == RDiv(v * ctrl_delay, 1000)
    IN  rollout_end(w, notch, v0).s + latency_margin

\* StoppingSim._stopping_distance
stopping_distance(w, notch, v) ==
    IF notch <= 0 THEN Inf ELSE estimate_stop_distance(w, notch, v)

-----------------------------------------------------------------------------
(* The simulation object.  A "world" w is the record [st, sim, scn, veh]   *)
(* of everything a handler reads or writes; each handler below is the      *)
(* function from the world before the call to the world after it.          *)
(* Not modelled: the countdown-timer fields of State, time_history and the *)
(* timer tables (no handler modelled here reads them).                     *)

\* State(...) as reset() constructs it (lines 202-216, 725-727)
NewState(lever) ==
    [ t |-> 0, s |-> 0, v |-> 0, a |-> 0,
      lever_notch |-> lever, internal_notch |-> 0,
      atc_overspeed |-> FALSE, finished |-> FALSE,
      stop_error_m |-> None, residual_speed_kmh |-> None, score |-> None,
      paused |-> FALSE ]

\* the prediction cache as __init__ and reset() fill it; s_up is computed by
\* the program but read nowhere, and is left out
EmptyPredCache == [t |-> -1000, v |-> -10000, notch |-> -1, s_cur |-> Inf, s_dn |-> Inf]

\* StoppingSim.__init__ (lines 244-334), the fields that change
NewSim ==
    [ running |-> FALSE, random_mode |-> FALSE, final_notch_on_finish |-> 0,
      planned_v0 |-> 0, cmd_queue |-> <<>>,
      first_brake_done |-> FALSE, first_brake_notch |-> None,
      first_brake_start_t |-> None, seen_zero_notch |-> FALSE,
      notch_history |-> <<>>, eb_used |-> FALSE, run_over |-> FALSE,
      prev_a |-> 0, jerk_history |-> <<>>,
      tasc_enabled |-> FALSE, tasc_enabled_initially |-> FALSE,
      manual_override |-> FALSE,
      tasc_last_change_t |-> 0, tasc_phase |-> "build", tasc_peak_notch |-> 1,
      tasc_armed |-> FALSE, tasc_active |-> FALSE,
      tasc_pred_cache |-> EmptyPredCache, tasc_last_pred_t |-> -1000,
      brk_accel |-> 0, brk_elec |-> 0, brk_air |-> 0,
      wsp_state |-> "normal", wsp_timer |-> 0, a_cmd_filt |-> 0 ]

\* reset() without `self._cmd_queue.clear()`
\* reset() without `self._cmd_queue.clear()` (line 735)
reset_keeping_queue(w) ==
    LET max_normal_notch == w.veh.notches - 2
        prev_lever_notch ==
            IF w.sim.random_mode
            THEN IF w.sim.final_notch_on_finish >= w.veh.notches - 1
                 THEN max_normal_notch
                 ELSE w.sim.final_notch_on_finish
            ELSE 0
        keep_tasc == w.sim.tasc_active
    IN  [ w EXCEPT
          !.st  = NewState(prev_lever_notch),
          !.sim = [ w.sim EXCEPT
              !.planned_v0 = w.scn.v0,
              !.running = IF ~w.sim.random_mode THEN FALSE ELSE w.sim.running,
              !.first_brake_done = FALSE,
              !.first_brake_notch = None,
              !.first_brake_start_t = None,
              !.seen_zero_notch = FALSE,
              !.eb_used = FALSE,
              !.notch_history = <<>>,
              !.prev_a = 0,
              !.jerk_history = <<>>,
              !.tasc_last_change_t = 0,
              !.tasc_phase = IF ~keep_tasc THEN "build" ELSE w.sim.tasc_phase,
              !.tasc_peak_notch = IF ~keep_tasc THEN 1 ELSE w.sim.tasc_peak_notch,
              !.tasc_active = FALSE,
              !.tasc_armed = w.sim.tasc_enabled,
              !.tasc_pred_cache = EmptyPredCache,
              !.tasc_last_pred_t = -1000,
              !.brk_accel = 0, !.brk_elec = 0, !.brk_air = 0,
              !.wsp_state = "normal", !.wsp_timer = 0,
              !.a_cmd_filt = 0 ] ]

\* StoppingSim.reset (lines 698-793)
reset(w) ==
    LET max_normal_notch == w.veh.notches - 2
        prev_lever_notch ==
            IF w.sim.random_mode
            THEN IF w.sim.final_notch_on_finish >= w.veh.notches - 1
                 THEN max_normal_notch
                 ELSE w.sim.final_notch_on_finish
            ELSE 0
        keep_tasc == w.sim.tasc_active
    IN  [ w EXCEPT
          !.st  = NewState(prev_lever_notch),
          !.sim = [ w.sim EXCEPT
              !.planned_v0 = w.scn.v0,
              !.running = IF ~w.sim.random_mode THEN FALSE ELSE w.sim.running,
              !.cmd_queue = <<>>,
              !.first_brake_done = FALSE,
              !.first_brake_notch = None,
              !.first_brake_start_t = None,
              !.seen_zero_notch = FALSE,
              !.eb_used = FALSE,
              !.notch_history = <<>>,
              !.prev_a = 0,
              !.jerk_history = <<>>,
              !.tasc_last_change_t = 0,
              !.tasc_phase = IF ~keep_tasc THEN "build" ELSE w.sim.tasc_phase,
              !.tasc_peak_notch = IF ~keep_tasc THEN 1 ELSE w.sim.tasc_peak_notch,
              !.tasc_active = FALSE,
              !.tasc_armed = w.sim.tasc_enabled,
              !.tasc_pred_cache = EmptyPredCache,
              !.tasc_last_pred_t = -1000,
              !.brk_accel = 0, !.brk_elec = 0, !.brk_air = 0,
              !.wsp_state = "normal", !.wsp_timer = 0,
              !.a_cmd_filt = 0 ] ]

\* StoppingSim.start (lines 799-803)
start(w) ==
    LET r == reset(w)
    IN  [ r EXCEPT !.st.v = r.sim.planned_v0, !.sim.running = TRUE ]

\* the branches of _apply_command on the command name (lines 648-676)
apply_lever(w, name, val) ==
    IF name = "stepNotch"
    THEN [w EXCEPT !.st.lever_notch = clamp_notch(w.veh, w.st.lever_notch + val)]
    ELSE IF name = "release"
    THEN [w EXCEPT !.st.lever_notch = 0]
    ELSE IF name = "emergencyBrake"
    THEN [w EXCEPT !.st.lever_notch = w.veh.notches - 1,
                   !.sim.eb_used = IF w.st.v > 0 THEN TRUE ELSE w.sim.eb_used]
    ELSE IF name = "setNotch"
    THEN [w EXCEPT !.st.lever_notch = clamp_notch(w.veh, val)]
    ELSE IF name = "setInternalNotch"
    THEN [w EXCEPT !.st.internal_notch = clamp_notch(w.veh, val)]
    ELSE w

\* apply_boost initialising the filter at any speed
apply_boost_moving(w1, pwr) ==
    IF w1.st.lever_notch < 0 /\ pwr > 0
    THEN [w1 EXCEPT !.sim.a_cmd_filt = pwr]
    ELSE w1

\* lines 678-693: a forward notch at rest initialises the command filter;
\* pwr is compute_power_accel(lever_notch, 0.0)
apply_boost(w1, pwr) ==
    IF w1.st.lever_notch < 0 /\ w1.st.v = 0 /\ pwr > 0
    THEN [w1 EXCEPT !.sim.a_cmd_filt = pwr]
    ELSE w1

\* lines 678-693 on the world w1 the branches left
apply_rest(w1) == apply_boost(w1, compute_power_accel(w1.veh, w1.st.lever_notch, 0))

\* StoppingSim._apply_command (lines 648-693)
apply_command(w, cmd) == apply_rest(apply_lever(w, cmd.name, cmd.val))

\* lines 607-616: with the lever on the emergency notch the brake states
\* are forced to the commanded value a_cmd_total, split by the blend bw
force_brake(w1, a_cmd_total, bw) ==
    IF w1.st.lever_notch = w1.veh.notches - 1
    THEN [w1 EXCEPT !.sim.brk_elec = RDiv(a_cmd_total * bw, 1000),
                    !.sim.brk_air = RDiv(a_cmd_total * (1000 - bw), 1000),
                    !.sim.brk_accel = RDiv(a_cmd_total * bw, 1000) + RDiv(a_cmd_total * (1000 - bw), 1000),
                    !.sim.a_cmd_filt = a_cmd_total]
    ELSE w1

\* lines 605-616 on the world w1 _apply_command left
emergency_applied(w1) ==
    force_brake(w1, effective_brake_accel(w1.veh, w1.scn, w1.st.lever_notch, w1.st.v),
                blend_w_regen(w1.st.v))

\* the latency branch of queue_command (line 646)
queue_delayed(w, name, val) ==
    [w EXCEPT !.sim.cmd_queue = Append(@, [t |-> w.st.t + w.veh.tau_cmd, name |-> name, val |-> val])]

\* queue_emergency with the emergency brake sent through the command
\* latency like any other lever command
queue_emergency_latent(w, val) == queue_delayed(w, "emergencyBrake", val)

\* the emergency-brake branch of queue_command (lines 600-620)
queue_emergency(w, val) ==
    emergency_applied(apply_command(w, [t |-> w.st.t, name |-> "emergencyBrake", val |-> val]))

\* queue_command applying a lever command at rest and queueing it as well
queue_command_both(w, name, val) ==
    IF name = "atcOverspeed"
    THEN [w EXCEPT !.st.atc_overspeed = (val # 0)]
    ELSE IF name = "emergencyBrake"
    THEN queue_emergency(w, val)
    ELSE IF name \in {"stepNotch", "applyNotch", "setNotch", "release"} /\ w.st.v <= 500
    THEN queue_delayed(apply_command(w, [t |-> w.st.t, name |-> name, val |-> val]), name, val)
    ELSE queue_delayed(w, name, val)

\* StoppingSim.queue_command (lines 585-646)
queue_command(w, name, val) ==
    IF name = "atcOverspeed"
    THEN [w EXCEPT !.st.atc_overspeed = (val # 0)]
    ELSE IF name = "emergencyBrake"
    THEN queue_emergency(w, val)
    ELSE IF name \in {"stepNotch", "applyNotch", "setNotch", "release"} /\ w.st.v <= 500
    THEN apply_command(w, [t |-> w.st.t, name |-> name, val |-> val])
    ELSE queue_delayed(w, name, val)

\* drain applying every queued entry, due or not
drain_eager(w) ==
    [w EXCEPT !.sim.cmd_queue = <<>>,
              !.st.lever_notch = IF w.sim.cmd_queue = <<>> THEN @ ELSE w.veh.notches - 1]

\* while self._cmd_queue and self._cmd_queue[0]["t"] <= st.t: apply, in order
\* (line 1261-1262, and the loops of recv_loop at lines 1885-1887 etc.)
RECURSIVE drain(_)
drain(w) ==
    IF w.sim.cmd_queue # <<>> /\ Head(w.sim.cmd_queue).t <= w.st.t
    THEN drain(apply_command([w EXCEPT !.sim.cmd_queue = Tail(@)], Head(w.sim.cmd_queue)))
    ELSE w

-----------------------------------------------------------------------------
(* Scoring helpers *)

\* StoppingSim.remove_adjacent_duplicates
remove_adjacent_duplicates(lst) ==
    LET keep == {i \in DOMAIN lst : i = 1 \/ lst[i] # lst[i - 1]}
        nth(k) == CHOOSE i \in keep : Cardinality({j \in keep : j <= i}) = k
    IN  [k \in 1..Cardinality(keep) |-> lst[nth(k)]]

\* StoppingSim.remove_negative_values: what follows the last negative entry
remove_negative_values(notches) ==
    LET neg == {i \in DOMAIN notches : notches[i] < 0}
    IN  IF neg = {} THEN notches
        ELSE SubSeq(notches, (CHOOSE i \in neg : \A j \in neg : j <= i) + 1, Len(notches))

\* the loop of is_stair_pattern (lines 1563-1573) from position i on
RECURSIVE StairLoop(_, _, _)
StairLoop(notches, i, peak_reached) ==
    IF i > Len(notches) THEN TRUE
    ELSE LET cur  == notches[i]
             prev == notches[i - 1]
         IN  IF ~peak_reached
             THEN StairLoop(notches, i + 1, cur < prev)
             ELSE IF cur > prev THEN FALSE
             ELSE StairLoop(notches, i + 1, TRUE)

\* StoppingSim.is_stair_pattern
is_stair_pattern(history) ==
    LET notches == remove_negative_values(remove_adjacent_duplicates(history))
    IN  IF Len(notches) < 5 THEN FALSE
        ELSE IF ~StairLoop(notches, 2, FALSE) THEN FALSE
        ELSE notches[Len(notches)] \in {1, 2}

RECURSIVE SeqSum(_)
SeqSum(q) == IF q = <<>> THEN 0 ELSE Head(q) + SeqSum(Tail(q))

\* StoppingSim.compute_jerk_score; jerk samples are in 0.001 m/s^3
compute_jerk_score(jerk_history, dt) ==
    LET n == 1000 \div dt
        len == Len(jerk_history)
        recent == IF len >= n /\ n > 0 THEN SubSeq(jerk_history, len - n + 1, len) ELSE jerk_history
        avg_jerk == RDiv(SeqSum(recent), Len(recent))
        high_jerk_count == Cardinality({i \in DOMAIN recent : recent[i] > 30000})
        adjusted_jerk == avg_jerk + RDiv(avg_jerk * Min(10, high_jerk_count), 10)
    IN  IF recent = <<>> THEN 0
        ELSE IF adjusted_jerk <= 10000 THEN 0
        ELSE IF adjusted_jerk <= 21600 THEN 500
        ELSE IF adjusted_jerk <= 24000 THEN TruncDiv(500 * (24000 - adjusted_jerk), 2400)
        ELSE 0

\* round(x, 0) of Python for x = num / den (den > 0, num >= 0): to nearest,
\* halves to the even neighbour
RoundHalfEven(num, den) ==
    LET q == num \div den
        r == num % den
    IN  IF 2 * r < den THEN q
        ELSE IF 2 * r > den THEN q + 1
        ELSE IF q % 2 = 0 THEN q ELSE q + 1

\* the band the raw score is clamped to (lines 1499-1505)
minq == 300
maxq == 1200

\* normalize_score without the two clamps
normalize_score_unclamped(score) ==
    IF score >= minq
    THEN RoundHalfEven((score - minq) * 100, maxq - minq)
    ELSE -RoundHalfEven((minq - score) * 100, maxq - minq)

\* lines 1499-1509: clamp to [minq, maxq], rescale to [0, 100], round
normalize_score(score) ==
    LET clamped == IF score < minq THEN minq ELSE IF score > maxq THEN maxq ELSE score
        scaled  == RoundHalfEven((clamped - minq) * 100, maxq - minq)
    IN  Max(0, Min(100, scaled))

\* the raw score of the finish block of step() (lines 1422-1497); w is the
\* world with stop_error_m and the jerk sample already recorded
raw_score(w) ==
    LET err     == w.st.stop_error_m[1]
        err_abs == Abs(err)
        hist    == w.sim.notch_history
        last_notch == IF hist # <<>> /\ err_abs <= 10000 THEN hist[Len(hist)] ELSE 0
    IN  (IF w.sim.eb_used THEN -500 ELSE 0)
      + (IF ~w.sim.first_brake_done THEN -100 ELSE 300)
      + (IF last_notch \in {0, 1, 2} THEN 300 ELSE -100)
      + (IF is_stair_pattern(hist) THEN 300
         ELSE IF w.sim.tasc_enabled /\ ~w.sim.manual_override THEN 300 ELSE 0)
      + Max(0, 500 - TruncDiv(err_abs, 40))
      + (IF err_abs < 100 THEN 500 ELSE 0)
      + compute_jerk_score(w.sim.jerk_history, w.scn.dt)
      + (IF w.sim.run_over THEN -1000 ELSE 0)

-----------------------------------------------------------------------------
(* StoppingSim.step, in the order of the code: drain the due commands,     *)
(* record the notch, (frozen when finished,) first-brake bookkeeping, the   *)
(* TASC controller, the dynamics, the finish check and the score.          *)

\* lines 1264-1266: the notch is recorded while the train moves
record_notch(w) ==
    IF w.st.v > 1000
    THEN [w EXCEPT !.sim.notch_history = Append(@, w.st.lever_notch)]
    ELSE w

\* the tick of a finished run with the clock left running
step_finished_clock(w) ==
    [w EXCEPT !.st.a = 0, !.st.v = Max(0, w.st.v), !.st.t = w.st.t + w.scn.dt]

\* lines 1270-1275: a finished run is frozen
step_finished(w) == [w EXCEPT !.st.a = 0, !.st.v = Max(0, w.st.v)]

\* lines 1276-1298: the initial-brake criterion under manual driving
first_brake(w) ==
    LET seen == w.sim.seen_zero_notch \/ w.st.lever_notch = 0
        w1   == [w EXCEPT !.sim.seen_zero_notch = seen]
        cur  == w.st.lever_notch
        hist == w.sim.notch_history
        prev == IF Len(hist) >= 2 THEN Some(hist[Len(hist) - 1]) ELSE None
    IN  IF ~w.sim.first_brake_done /\ seen /\ ~w.sim.tasc_active
        THEN IF w.sim.first_brake_notch = None
             THEN IF prev = Some(0) /\ cur \in {1, 2}
                  THEN [w1 EXCEPT !.sim.first_brake_notch = Some(cur),
                                  !.sim.first_brake_start_t = Some(w.st.t)]
                  ELSE w1
             ELSE IF Some(cur) = w.sim.first_brake_notch
                  THEN IF w.st.t - w.sim.first_brake_start_t[1] >= 999
                       THEN [w1 EXCEPT !.sim.first_brake_done = TRUE]
                       ELSE w1
                  ELSE [w1 EXCEPT !.sim.first_brake_notch = None,
                                  !.sim.first_brake_start_t = None]
        ELSE w1

\* StoppingSim._tasc_relax_margin_for_notch
tasc_relax_margin_for_notch(notch) ==
    IF notch >= 6 THEN 30000
    ELSE IF notch >= 5 THEN 20000
    ELSE IF notch >= 4 THEN 10000
    ELSE tasc_relax_margin_m

\* StoppingSim._tasc_predict: the world with the cache refreshed when it is
\* stale (the cached s_cur, s_dn are then the prediction)
tasc_predict(w, cur_notch, v) ==
    LET c    == w.sim.tasc_pred_cache
        need == \/ (w.st.t - w.sim.tasc_last_pred_t) >= tasc_pred_interval
                \/ Abs(v - c.v) >= tasc_speed_eps
                \/ cur_notch # c.notch
        s_cur == IF cur_notch > 0 THEN stopping_distance(w, cur_notch, v) ELSE Inf
        s_dn  == IF cur_notch - 1 >= 1 THEN stopping_distance(w, cur_notch - 1, v) ELSE Inf
    IN  IF ~need THEN w
        ELSE [w EXCEPT !.sim.tasc_pred_cache =
                          [t |-> w.st.t, v |-> v, notch |-> cur_notch, s_cur |-> s_cur, s_dn |-> s_dn],
                       !.sim.tasc_last_pred_t = w.st.t]

\* the controller's assignment st.internal_notch = n (lines 1336-1338,
\* 1357-1358, 1362-1363)
tasc_write(w, n) ==
    [w EXCEPT !.st.internal_notch = n, !.sim.tasc_last_change_t = w.st.t]

\* tasc_takeover without the test of the remaining distance
tasc_takeover_anywhere(w) ==
    IF w.sim.tasc_armed /\ ~w.sim.tasc_active
    THEN [w EXCEPT !.sim.tasc_active = TRUE, !.sim.tasc_armed = FALSE,
                   !.sim.tasc_last_change_t = w.st.t]
    ELSE w

\* lines 1319-1325: armed -> active at the handoff distance
tasc_takeover(w) ==
    LET rem_now == w.scn.L - w.st.s
    IN  IF w.sim.tasc_armed /\ ~w.sim.tasc_active /\ rem_now <= tasc_takeover_rem_m + tasc_takeover_hyst_m
        THEN [w EXCEPT !.sim.tasc_active = TRUE, !.sim.tasc_armed = FALSE,
                       !.sim.tasc_last_change_t = w.st.t]
        ELSE w

\* tasc_raise without the test of the phase
tasc_raise_any_phase(w) ==
    /\ w.st.internal_notch < w.veh.notches - 2
    /\ w.sim.tasc_pred_cache.s_cur > (w.scn.L - w.st.s) - tasc_deadband_m

\* lines 1334-1335: in the build phase the predicted stop at the current
\* notch is too long and a stronger normal notch exists
tasc_raise(w) ==
    /\ w.sim.tasc_phase = "build"
    /\ w.st.internal_notch < w.veh.notches - 2
    /\ w.sim.tasc_pred_cache.s_cur > (w.scn.L - w.st.s) - tasc_deadband_m

\* line 1338: the peak notch follows the notch just written
tasc_peak(w) == [w EXCEPT !.sim.tasc_peak_notch = Max(@, w.st.internal_notch)]

\* lines 1333-1341: the build phase; changed is tasc_raise and dwell_ok
tasc_build(w, changed) ==
    IF changed
    THEN tasc_peak(tasc_write(w, clamp_notch(w.veh, w.st.internal_notch + 1)))
    ELSE IF w.sim.tasc_phase = "build" /\ ~tasc_raise(w)
    THEN [w EXCEPT !.sim.tasc_phase = "relax"]
    ELSE w

\* lines 1342-1363: the relax phase on the world w1 the build phase left;
\* cur, s_dn and rem_now are the values read before the build phase
tasc_relax(w1, cur, s_dn, rem_now, changed, dwell_ok) ==
    LET target_notch == cur - 1
        margin  == tasc_relax_margin_for_notch(cur)
        time_since_change == w1.st.t - w1.sim.tasc_last_change_t
    IN  IF w1.sim.tasc_phase = "relax" /\ ~changed /\ cur > 1
        THEN IF cur >= test_notch
             THEN IF /\ s_dn <= rem_now + tasc_deadband_m - margin
                     /\ dwell_ok
                     /\ time_since_change >= tasc_relax_hold_s
                  THEN tasc_write(w1, clamp_notch(w1.veh, target_notch))
                  ELSE w1
             ELSE IF s_dn <= rem_now + tasc_deadband_m /\ dwell_ok
                  THEN tasc_write(w1, clamp_notch(w1.veh, target_notch))
                  ELSE w1
        ELSE w1

\* lines 1332-1363 on the world w whose cache holds the prediction
tasc_decide(w, changed, dwell_ok) ==
    tasc_relax(tasc_build(w, changed), w.st.internal_notch, w.sim.tasc_pred_cache.s_dn,
               w.scn.L - w.st.s, changed, dwell_ok)

\* lines 1332-1363 with changed computed (lines 1334-1339)
tasc_predicted(w, dwell_ok) == tasc_decide(w, tasc_raise(w) /\ dwell_ok, dwell_ok)

\* lines 1331-1363: the build / relax rule of an active controller; dwell_ok
\* is computed by the caller before the takeover (line 1314)
tasc_rule(w0, dwell_ok) ==
    tasc_predicted(tasc_predict(w0, w0.st.internal_notch, w0.st.v), dwell_ok)

\* lines 1327-1363: the block of an active controller
tasc_active_block(w1, dwell_ok) ==
    IF w1.sim.tasc_active
    THEN IF ~w1.sim.first_brake_done
         THEN [w1 EXCEPT !.sim.first_brake_done = TRUE]
         ELSE tasc_rule(w1, dwell_ok)
    ELSE w1

\* tasc_control without the minimum dwell (dwell_ok always true)
tasc_control_no_dwell(w) ==
    IF w.sim.tasc_enabled /\ ~w.st.finished
    THEN tasc_active_block(tasc_takeover(w), TRUE)
    ELSE w

\* lines 1313-1363: the TASC block of step()
tasc_control(w) ==
    IF w.sim.tasc_enabled /\ ~w.st.finished
    THEN tasc_active_block(tasc_takeover(w), (w.st.t - w.sim.tasc_last_change_t) >= tasc_hold_min_s)
    ELSE w

\* the effective notch following the driver alone while the overspeed flag
\* is clear
effective_notch_flagged(w) ==
    IF w.st.atc_overspeed THEN Max(w.st.lever_notch, w.st.internal_notch) ELSE w.st.lever_notch

\* line 1367 and lines 1375-1376, 1388, 1398: the notch that brakes
effective_notch(w) == Max(w.st.lever_notch, w.st.internal_notch)

\* lines 1375-1377: the brake blend of one tick
dyn_brake(w) ==
    update_brake_dyn_split(w.sim.brk_elec, w.sim.brk_air,
                           effective_brake_accel(w.veh, w.scn, effective_notch(w), w.st.v),
                           w.st.v, effective_notch(w) = w.veh.notches - 1, w.scn.dt)

\* lines 1366-1373, 1380-1389: the target acceleration of one tick, from the
\* wheel-slip-limited brake acceleration a_brake
dyn_target(w, a_brake) ==
    LET pwr_accel == IF w.st.atc_overspeed
                     THEN compute_power_accel(w.veh, effective_notch(w), w.st.v)
                     ELSE compute_power_accel(w.veh, w.st.lever_notch, w.st.v)
        a_sum == pwr_accel + a_brake + grade_accel(w.scn) + davis_accel(w.veh, w.st.v)
    IN  IF effective_notch(w) >= 1 THEN Min(a_sum, 0) ELSE a_sum

\* lines 1395-1413: jerk limit, integration and the clock, from the brake
\* blend b, the wheel-slip stage ws and the filtered command filt
dyn_integrate(w, b, ws, filt) ==
    LET dt == w.scn.dt
        a2 == JerkLimited(w.st.a, filt, MaxDa(w.veh, w.st.v, dt, effective_notch(w) >= 1))
        v2 == IntegrateV(w.st.v, a2, dt)
        s2 == w.st.s + PositionStep(v2, a2, dt)
    IN  [w EXCEPT !.sim.brk_elec = b.brk_elec, !.sim.brk_air = b.brk_air,
                  !.sim.brk_accel = b.brk_accel,
                  !.sim.wsp_state = ws.wsp_state, !.sim.wsp_timer = ws.wsp_timer,
                  !.sim.a_cmd_filt = filt,
                  !.st.a = a2, !.st.v = v2, !.st.s = s2, !.st.t = w.st.t + dt]

\* line 1392: the command filter
dyn_filter(w, b, ws) ==
    dyn_integrate(w, b, ws, Lag(w.sim.a_cmd_filt, dyn_target(w, ws.out), w.scn.dt, w.veh.tau_brk))

\* line 1378: the wheel-slip stage
dyn_slip(w, b) ==
    dyn_filter(w, b, wsp_update(w.scn, w.sim.wsp_state, w.sim.wsp_timer, w.st.v, b.brk_accel, w.scn.dt))

\* lines 1366-1413: the dynamics of one tick
dynamics(w) == dyn_slip(w, dyn_brake(w))

\* line 1417: the completion test
finish_due(w) ==
    LET rem == w.scn.L - w.st.s
    IN  ~w.st.finished /\ (rem <= -50000 \/ (rem <= 10000 /\ w.st.v <= 0))

\* lines 1418-1420, 1465-1467: the stop error, the residual speed and the one
\* jerk sample of the run
finish_record(w) ==
    [w EXCEPT !.st.finished = TRUE,
              !.st.stop_error_m = Some(w.scn.L - w.st.s),
              !.st.residual_speed_kmh = Some(Kmh(w.st.v)),
              !.sim.prev_a = w.st.a,
              !.sim.jerk_history = Append(@, RDiv(Abs(w.st.a - w.sim.prev_a) * 100, w.scn.dt))]

\* lines 1422-1512: the score and the notch the run ended on
finish_score(w1) ==
    [w1 EXCEPT !.st.score = Some(normalize_score(raw_score(w1))),
               !.sim.final_notch_on_finish = w1.st.lever_notch]

\* lines 1514-1528: the simulation halts, or in random mode re-arms the
\* controller for the next station
finish_mode(w2) ==
    IF ~w2.sim.random_mode THEN [w2 EXCEPT !.sim.running = FALSE]
    ELSE IF w2.sim.tasc_enabled_initially
    THEN [w2 EXCEPT !.sim.tasc_enabled = TRUE, !.sim.tasc_armed = TRUE,
                    !.sim.tasc_active = FALSE, !.sim.tasc_phase = "build",
                    !.sim.tasc_peak_notch = 1]
    ELSE w2

\* lines 1418-1528: completion, evaluated in the tick that reaches it
finish(w) == finish_mode(finish_score(finish_record(w)))

\* lines 1415-1530: the end of a tick of an unfinished run
step_end(w2) == IF finish_due(w2) THEN finish(w2) ELSE w2

\* the world a tick returns, from the world w1 after the queue drain and the
\* notch record and the world c after the TASC block
step_ctl(w1, c) ==
    [ pre  |-> w1,
      ctl  |-> c,
      post |-> IF w1.st.finished THEN step_finished(w1) ELSE step_end(dynamics(c)) ]

\* lines 1268-1363: a finished run skips the bookkeeping and the controller
step_from(w1) == step_ctl(w1, IF w1.st.finished THEN w1 ELSE tasc_control(first_brake(w1)))

\* StoppingSim.step (lines 1257-1532) with its intermediate worlds: pre is
\* the world after the queue drain and the notch record, ctl the world after
\* the TASC block, post the world the call returns
step_parts(w) == step_from(record_notch(drain(w)))

step(w) == step_parts(w).post

\* lines 1270-1275 and 1366-1530: the rest of step() from the world c its
\* TASC block left
step_tail(c) == IF c.st.finished THEN step_finished(c) ELSE step_end(dynamics(c))

-----------------------------------------------------------------------------
(* The command handlers of recv_loop (lines 1739-2131), one operator per   *)
(* branch: the world after the whole branch has run.                       *)

\* m/s (model units) of a speed given in whole km/h
FromKmh(kmh) == RDiv(kmh * 100000, 36)

\* name == "setInitial" (lines 1739-1768); speed in km/h, dist in m, grade in
\* per mille, mu in 1/100
recv_setInitial(w, speed, dist, grade, mu, random_mode) ==
    LET v_kmh == Max(0, Min(300, speed))
        L_m   == Max(150, Min(60000, dist))
    IN  reset([w EXCEPT !.scn.v0 = FromKmh(v_kmh),
                        !.scn.L = L_m * 10000,
                        !.scn.grade_permille = grade,
                        !.scn.mu = mu,
                        !.sim.random_mode = random_mode])

\* name == "advanceStation" (lines 1770-1873)
recv_advanceStation(w, dist, grade, mu) ==
    LET is_random_mode == w.sim.random_mode
        is_finished    == w.st.finished
        d      == Max(150, Min(60000, dist)) * 10000
        prev_s == w.st.s
        hist   == w.sim.notch_history
        prev_lever_notch ==
            IF hist # <<>> THEN hist[Len(hist)]
            ELSE IF is_finished THEN w.sim.final_notch_on_finish
            ELSE w.st.lever_notch
        r == reset(w)
    IN  IF ~is_random_mode /\ ~is_finished THEN w
        ELSE [r EXCEPT !.st.s = prev_s,
                       !.st.lever_notch = prev_lever_notch,
                       !.scn.L = prev_s + d,
                       !.scn.grade_permille = grade,
                       !.scn.mu = mu,
                       !.st.finished = FALSE,
                       !.st.stop_error_m = None,
                       !.st.residual_speed_kmh = Some(0),
                       !.st.v = 0,
                       !.st.a = 0,
                       !.sim.running = TRUE,
                       !.sim.run_over = FALSE,
                       !.sim.a_cmd_filt = 0]

\* name == "start" (lines 1875-1877)
recv_start(w) == [start(w) EXCEPT !.sim.run_over = FALSE]

\* the tail shared by the lever commands (lines 1884-1888 and alike): on a
\* finished run the due commands are applied and the final notch recorded
after_lever_command(w, release) ==
    IF w.st.finished
    THEN LET d == drain(w)
         IN  [d EXCEPT !.sim.final_notch_on_finish = IF release THEN 0 ELSE d.st.lever_notch]
    ELSE w

\* name in ("stepNotch", "applyNotch") (lines 1879-1890)
recv_stepNotch(w, delta) == after_lever_command(queue_command(w, "stepNotch", delta), FALSE)

\* name == "release" (lines 1892-1901)
recv_release(w) == after_lever_command(queue_command(w, "release", 0), TRUE)

\* name == "emergencyBrake" (lines 1903-1912)
recv_emergencyBrake(w) == after_lever_command(queue_command(w, "emergencyBrake", 0), FALSE)

\* name == "setNotch" (lines 1914-1925)
recv_setNotch(w, val) == after_lever_command(queue_command(w, "setNotch", val), FALSE)

\* name == "setInternalNotch" (lines 1926-1928)
recv_setInternalNotch(w, val) == queue_command(w, "setInternalNotch", val)

\* name == "atcOverspeed" (lines 1929-1931)
recv_atcOverspeed(w, val) == queue_command(w, "atcOverspeed", val)

\* name == "setGrade" (lines 1932-1937); grade is the payload in per cent
recv_setGrade(w, grade) == [w EXCEPT !.scn.grade_permille = grade * 10]

\* name == "setMu" (lines 2013-2018); value is the payload in per cent of 1.0
recv_setMu(w, value) == reset([w EXCEPT !.scn.mu = value])

\* name == "setTASC" (lines 1992-2004)
recv_setTASC(w, enabled) ==
    LET w1 == [w EXCEPT !.sim.tasc_enabled = enabled, !.sim.tasc_enabled_initially = enabled]
    IN  IF enabled
        THEN [w1 EXCEPT !.sim.manual_override = FALSE,
                        !.sim.tasc_last_change_t = w.st.t,
                        !.sim.tasc_phase = "build",
                        !.sim.tasc_peak_notch = 1,
                        !.sim.tasc_armed = TRUE,
                        !.sim.tasc_active = FALSE]
        ELSE w1

\* name == "obstacleStopSuccess" (lines 2006-2008)
recv_obstacleStopSuccess(w) == [w EXCEPT !.sim.eb_used = FALSE, !.sim.first_brake_done = TRUE]

\* name == "obstacleStopFail" (lines 2009-2010)
recv_obstacleStopFail(w) == [w EXCEPT !.sim.run_over = TRUE]

\* name == "setVehicleFile" (lines 2021-2057); a file that does not exist
\* raises inside the try and changes nothing
recv_setVehicleFile(w, file) ==
    IF file \in VehicleFiles THEN reset([w EXCEPT !.veh = Vehicle(file)])
    ELSE IF file = "nopower" THEN [w EXCEPT !.veh = Vehicle(file)]
    ELSE w

\* Messages the client may send besides the well-formed commands: json is
\* what json.loads makes of the text ("invalid": it raises), type and name
\* the values of these keys, payload what data["payload"] is, arg the value
\* of the key the handler converts (speed, grade, length).
Messages ==
    { [json |-> "invalid", type |-> "",      payload |-> "",       name |-> "",            arg |-> ""],
      [json |-> "array",   type |-> "",      payload |-> "",       name |-> "",            arg |-> ""],
      [json |-> "object",  type |-> "state", payload |-> "object", name |-> "",            arg |-> ""],
      [json |-> "object",  type |-> "cmd",   payload |-> "number", name |-> "",            arg |-> ""],
      [json |-> "object",  type |-> "cmd",   payload |-> "object", name |-> "setInitial",  arg |-> "text"],
      [json |-> "object",  type |-> "cmd",   payload |-> "object", name |-> "setInitial",  arg |-> "missing"],
      [json |-> "object",  type |-> "cmd",   payload |-> "object", name |-> "setGrade",    arg |-> "text"],
      [json |-> "object",  type |-> "cmd",   payload |-> "object", name |-> "setMassTons", arg |-> "zero"],
      [json |-> "object",  type |-> "cmd",   payload |-> "object", name |-> "warp",        arg |-> "missing"] }

\* one iteration of the while loop of recv_loop (lines 1724-2132) for a
\* message m of Messages: the world it leaves and whether an exception left
\* the loop.  json.loads raising is caught inside the loop (lines 1726-1731);
\* data.get on a value that is not an object, payload.get on a payload that
\* is not an object, float("text") and the division by int(length) = 0
\* raise to the handler around the loop (lines 2134-2141), before the
\* command has assigned anything.  A name no branch knows is queued (lines
\* 2129-2131).
recv_message(w, m) ==
    IF m.json = "invalid" THEN [w |-> w, raised |-> FALSE]
    ELSE IF m.json # "object" THEN [w |-> w, raised |-> TRUE]
    ELSE IF m.type # "cmd" THEN [w |-> w, raised |-> FALSE]
    ELSE IF m.payload # "object" THEN [w |-> w, raised |-> TRUE]
    ELSE IF m.name = "setInitial" THEN [w |-> w, raised |-> (m.arg # "missing")]
    ELSE IF m.name = "setGrade" THEN [w |-> w, raised |-> (m.arg = "text")]
    ELSE IF m.name = "setMassTons" THEN [w |-> w, raised |-> (m.arg \in {"zero", "text"})]
    ELSE [w |-> queue_command(w, m.name, 0), raised |-> FALSE]

\* name == "pause" (lines 2117-2121)
recv_pause(w) == [w EXCEPT !.st.paused = TRUE]

\* name == "resume" (lines 2123-2127)
recv_resume(w) == [w EXCEPT !.st.paused = FALSE]

\* name == "reset" (lines 2060-2061)
recv_reset(w) == reset(w)

-----------------------------------------------------------------------------
(* History variable.  obs records what the properties below speak about    *)
(* and no handler can read back:                                           *)
(*   last        the handler that ran last                                 *)
(*   ncmd, nloop the number of commands / sim_loop iterations so far       *)
(*   eb_cmd      an emergencyBrake command was handled since the last      *)
(*               reset()                                                   *)
(*   far         L - s has been above handoff + hysteresis in every state  *)
(*               since the last reset()                                    *)
(*   writes      controller assignments to internal_notch since the last   *)
(*               reset() (counted up to 2)                                 *)
(*   tasc_out    every <<value, notches>> the controller has assigned      *)
(*   takeovers   every <<phase, run>> at which armed -> active happened;   *)
(*               run is 1 in the first run in which the controller became  *)
(*               active and 2 in the later ones                            *)
(*   was_active  the controller has been active in an earlier run          *)
(*   back, fwd   some tick of an unfinished run ended with v > 0 and the   *)
(*               position not greater / greater than before the tick       *)
(*   jerk_over   some tick changed the acceleration by more than j_max*dt  *)
(*   pred        the stopping distances _stopping_distance returned for    *)
(*               the braking notches 1 .. notches-1, in that order         *)
(*   roll        None, or the one call _stopping_distance(notch, v0) made  *)
(*               in SpecRollout: the notch, the distance returned and,     *)
(*               where the rollout ran, the locals it ended with           *)
(*   whatif      None, or the one call _stopping_distance(notch, v) made   *)
(*               in SpecWhatIf: the notch, the locals the rollout started  *)
(*               with, the distance returned, the acceleration after the   *)
(*               rollout's first iteration and, where the lever stands on  *)
(*               that notch, the acceleration after the next dynamics of   *)
(*               step()                                                    *)
(*   stair       what is_stair_pattern returned for the notch history      *)
(*   drain_bad   the queue drain of some tick did not apply exactly the    *)
(*               entries with apply time <= t, oldest first, or did not    *)
(*               leave exactly the others queued                           *)
(*   drained     the largest number of entries one drain applied (up to 2) *)
(*   held        some drain applied an entry and left another one queued   *)
(*   post_tick   some tick ran on a finished run                           *)
(*   thawed      some tick on a finished run changed the elapsed time, the *)
(*               position, the velocity, the stop error or the score       *)
(*   int_effect  in some tick with the overspeed flag clear the motion     *)
(*               depended on the internal notch                            *)
(*   notch_bad   in some tick the motion was not the one of the notches    *)
(*               NotchRule names                                           *)
(*   wsp_t       the simulation time at which the wheel-slip protection    *)
(*               entered the state it is in, 0 while it is normal          *)
(*   wsp_in      None if the protection was normal before and after the    *)
(*               last tick, else <<a_demand, v, out, state>> of the tick's *)
(*               call of _wsp_update: its two arguments, what it returned  *)
(*               and the state it was called in                            *)
(*   ctl         None unless the last tick ran the controller's build /    *)
(*               relax rule (lines 1331-1363), else what the rule saw and  *)
(*               did: t the simulation time, cur and out the internal      *)
(*               notch before and after, phase and phase_out likewise,     *)
(*               below whether cur was below the maximum normal notch,     *)
(*               long whether the predicted stop at cur exceeded the       *)
(*               remaining distance minus the deadband, dwell_ok, and prev *)
(*               the value of chg_t before the tick                        *)
(*   chg_t       None, or the simulation time of the last tick of this run *)
(*               in which the controller changed the internal notch        *)
(*   fb          None until the tick of this run in which the manual       *)
(*               initial-brake rule (lines 1279-1298) set first_brake_done, *)
(*               then what notch_history showed in that tick: notch the    *)
(*               lever notch, run the number of ticks in a row that        *)
(*               recorded it, from the notch recorded before them (None if *)
(*               there is none) and hi whether a notch of 3 or more was    *)
(*               recorded in the run                                       *)
(*   dropped     None unless the last action was a handler that called     *)
(*               reset(), else <<n, state, k>>: the number of entries the  *)
(*               latency queue held when it was called (counted up to 2),  *)
(*               the state the wheel-slip protection was in, and the       *)
(*               number ncmd of that command                               *)
(*   eb_old      None until an emergencyBrake command is handled in an     *)
(*               unfinished run, then the number of entries of the latency *)
(*               queue that were enqueued before the last such command and *)
(*               are still waiting (they are at the head of the queue)     *)
(*   eb_undone   in some tick of this run the lever was at the emergency   *)
(*               notch and the entries counted by eb_old that were due     *)
(*               moved it off that notch                                   *)
(*   ref_ticks   the number of step() calls since sim_loop last assigned   *)
(*               t_start                                                   *)
(*   paused_ms   the wall-clock time that passed with state.paused set     *)
(*               since sim_loop last assigned t_start                      *)

Far(w) == (w.scn.L - w.st.s) > tasc_takeover_rem_m + tasc_takeover_hyst_m

NewObs ==
    [ last |-> "connect", ncmd |-> 0, nloop |-> 0, eb_cmd |-> FALSE,
      far |-> TRUE, writes |-> 0, tasc_out |-> {}, takeovers |-> {},
      was_active |-> FALSE, back |-> FALSE, fwd |-> FALSE,
      jerk_over |-> FALSE, pred |-> <<>>, roll |-> None, whatif |-> None,
      stair |-> None, drain_bad |-> FALSE, drained |-> 0, held |-> FALSE,
      int_effect |-> FALSE, notch_bad |-> FALSE,
      post_tick |-> FALSE, thawed |-> FALSE,
      wsp_t |-> 0, wsp_in |-> None, ctl |-> None, chg_t |-> None, fb |-> None, dropped |-> None,
      eb_old |-> None, eb_undone |-> FALSE,
      ref_ticks |-> 0, paused_ms |-> 0 ]

\* obs after a handler that called reset(); w is the world it returned
ObsReset(o, before, w) ==
    [o EXCEPT !.eb_cmd = FALSE, !.far = Far(w), !.writes = 0, !.ctl = None, !.chg_t = None,
              !.fb = None, !.eb_old = None, !.eb_undone = FALSE,
              !.dropped = Some(<<Min(2, Len(before.sim.cmd_queue)), before.sim.wsp_state,
                                 o.ncmd + 1>>),
              !.was_active = o.was_active \/ before.sim.tasc_active \/ o.takeovers # {}]

\* _apply_command for each entry of cmds, first to last
RECURSIVE apply_all(_, _)
apply_all(w, cmds) ==
    IF cmds = <<>> THEN w ELSE apply_all(apply_command(w, Head(cmds)), Tail(cmds))

\* the entries of the latency queue that are due at the time of w, or not
DueCommands(w, is_due) ==
    SelectSeq(w.sim.cmd_queue, LAMBDA e : (e.t <= w.st.t) = is_due)

\* what a finished run keeps
Frozen(w) == <<w.st.finished, w.st.t, w.st.s, w.st.v, w.st.stop_error_m, w.st.score>>

\* what the dynamics of one tick leave of the motion
MotionOf(d) == <<d.st.a, d.st.v, d.st.s, d.sim.brk_accel>>
Motion(w) == MotionOf(dynamics(w))

\* the worlds c and c2 before the dynamics of a tick move alike
SameMotion(c, c2) == c2 = c \/ Motion(c2) = Motion(c)

\* the world c before the dynamics of a tick moves as the world in which
\* the driver's lever stands at max(lever, internal) does, unless the
\* overspeed flag is clear and the lever is in traction; then, with no brake
\* notch from the controller, it moves as if the controller asked for the
\* lever's notch
NotchRule(c) ==
    LET lever == c.st.lever_notch
        top   == Max(lever, c.st.internal_notch)
    IN  IF c.st.atc_overspeed \/ lever >= 0
        THEN SameMotion(c, [c EXCEPT !.st.lever_notch = top])
        ELSE top <= 0 => SameMotion(c, [c EXCEPT !.st.internal_notch = lever])

\* the number of entries at the end of hist that equal its last entry
TrailingRun(hist) ==
    IF hist = <<>> THEN 0
    ELSE Len(hist) - Max(0, CHOOSE i \in 0..Len(hist) :
                                /\ \A j \in (i + 1)..Len(hist) : hist[j] = hist[Len(hist)]
                                /\ i > 0 => hist[i] # hist[Len(hist)])

\* obs after one step() from world w with parts p
ObsStep(o, w, p) ==
    LET wrote    == p.ctl.st.internal_notch # p.pre.st.internal_notch
        due      == DueCommands(w, TRUE)
        rest     == DueCommands(w, FALSE)
        takeover == ~p.pre.sim.tasc_active /\ p.ctl.sim.tasc_active
        live     == ~p.pre.st.finished /\ p.post.st.v > 0
        slipped  == p.post.sim.wsp_state # w.sim.wsp_state
        ruled    == /\ p.pre.sim.tasc_enabled /\ ~p.pre.st.finished
                    /\ p.ctl.sim.tasc_active /\ p.pre.sim.first_brake_done
        hist     == p.pre.sim.notch_history
        run      == TrailingRun(hist)
        old      == IF o.eb_old = None THEN 0 ELSE Min(o.eb_old[1], Len(due))
    IN  [o EXCEPT
          !.dropped = None,
          !.eb_old = IF @ = None \/ w.st.finished THEN None ELSE Some(@[1] - old),
          !.eb_undone = o.eb_undone
                        \/ ( /\ old > 0 /\ ~w.st.finished
                             /\ w.st.lever_notch = w.veh.notches - 1
                             /\ apply_all(w, SubSeq(due, 1, old)).st.lever_notch
                                    # w.veh.notches - 1 ),
          !.fb = IF /\ ~p.pre.st.finished /\ ~p.pre.sim.first_brake_done
                    /\ first_brake(p.pre).sim.first_brake_done
                 THEN Some([notch |-> p.pre.st.lever_notch, run |-> run,
                            from |-> IF Len(hist) > run THEN Some(hist[Len(hist) - run]) ELSE None,
                            hi |-> \E i \in 1..Len(hist) : hist[i] >= 3])
                 ELSE o.fb,
          !.ctl = IF ruled
                  THEN Some([t |-> p.pre.st.t,
                             cur |-> p.pre.st.internal_notch, out |-> p.ctl.st.internal_notch,
                             phase |-> p.pre.sim.tasc_phase, phase_out |-> p.ctl.sim.tasc_phase,
                             below |-> p.pre.st.internal_notch < p.pre.veh.notches - 2,
                             long |-> p.ctl.sim.tasc_pred_cache.s_cur
                                        > (p.pre.scn.L - p.pre.st.s) - tasc_deadband_m,
                             dwell_ok |-> (p.pre.st.t - p.pre.sim.tasc_last_change_t)
                                            >= tasc_hold_min_s,
                             prev |-> o.chg_t])
                  ELSE None,
          !.chg_t = IF ruled /\ wrote THEN Some(p.pre.st.t) ELSE o.chg_t,
          !.wsp_t = IF p.post.sim.wsp_state = "normal" THEN 0
                    ELSE IF slipped THEN p.post.st.t ELSE o.wsp_t,
          !.wsp_in = IF ~p.pre.st.finished
                        /\ (w.sim.wsp_state # "normal" \/ p.post.sim.wsp_state # "normal")
                     THEN Some(<<dyn_brake(p.ctl).brk_accel, p.ctl.st.v,
                                 wsp_update(p.ctl.scn, p.ctl.sim.wsp_state, p.ctl.sim.wsp_timer,
                                            p.ctl.st.v, dyn_brake(p.ctl).brk_accel,
                                            p.ctl.scn.dt).out,
                                 p.ctl.sim.wsp_state>>)
                     ELSE None,
          !.far = o.far /\ Far(p.post),
          !.writes = IF wrote THEN Min(2, o.writes + 1) ELSE o.writes,
          !.tasc_out = IF wrote THEN o.tasc_out \cup {<<p.ctl.st.internal_notch, p.ctl.veh.notches>>}
                       ELSE o.tasc_out,
          !.takeovers = IF takeover
                        THEN o.takeovers \cup {<<p.pre.sim.tasc_phase, IF o.was_active THEN 2 ELSE 1>>}
                        ELSE o.takeovers,
          !.back = o.back \/ (live /\ p.post.st.s <= w.st.s),
          !.fwd  = o.fwd \/ (live /\ p.post.st.s > w.st.s),
          !.jerk_over = o.jerk_over
                        \/ Abs(p.post.st.a - w.st.a) > MaxDa(w.veh, w.st.v, w.scn.dt, FALSE),
          !.drain_bad = o.drain_bad
                        \/ p.pre # record_notch(apply_all([w EXCEPT !.sim.cmd_queue = rest], due)),
          !.drained = Max(o.drained, Min(2, Len(due))),
          !.held = o.held \/ (due # <<>> /\ rest # <<>>),
          !.int_effect = o.int_effect
                         \/ ( /\ ~p.pre.st.finished /\ ~p.ctl.st.atc_overspeed
                              /\ ~SameMotion(p.ctl, [p.ctl EXCEPT !.st.internal_notch = 0]) ),
          !.notch_bad = o.notch_bad \/ (~p.pre.st.finished /\ ~NotchRule(p.ctl)),
          !.post_tick = o.post_tick \/ w.st.finished,
          !.thawed = o.thawed
                     \/ (w.st.finished /\ Frozen(p.post) # Frozen(w)) ]

\* the world after a tick with parts p, observation included
step_commit(w, p) == [p.post EXCEPT !.obs = ObsStep(w.obs, w, p)]

\* step() together with its observation
step_obs(w) == step_commit(w, step_parts(w))

\* the for loop of sim_loop (lines 2193-2196): k calls of step() with no
\* await between them
RECURSIVE run_steps(_, _)
run_steps(w, k) == IF k = 0 THEN w ELSE run_steps(step_obs(w), k - 1)

-----------------------------------------------------------------------------
(* The state machine.  One client connection: ws_endpoint builds the       *)
(* simulation, recv_loop handles one command at a time, sim_loop runs the  *)
(* steps that are due.  Three sessions are explored:                       *)
(*   Spec      manual driving on a short approach, every lever command;    *)
(*   SpecTasc  the automatic controller on a short approach, with restarts *)
(*             and setInternalNotch at any moment;                         *)
(*   SpecRun   unattended runs over the 500 m approach at 72 km/h, the     *)
(*             client sending commands only while the simulation stands.   *)

\* number of commands handled in one behaviour of Spec and SpecTasc
MaxCmds == 3

\* number of sim_loop iterations that run steps in one behaviour of Spec and
\* SpecTasc
MaxLoops == 4

\* steps one sim_loop iteration may have to catch up with
LoopSteps == {1, 4}

\* wall-clock time of one behaviour of SpecLoop, ms
MaxWallMs == 1000

\* how long the wall clock advances at a time, ms
WaitMs == {100, 250}

\* number of commands handled in one behaviour of SpecRun
MaxRunCmds == 2

\* simulated time (ms) up to which SpecRun follows a run
MaxRunMs == 47000

\* scenario.json of the manual-driving sessions: the last 15 m of a platform
\* approach at 18 km/h, stepped at 250 ms
ScenarioShort == [L |-> 150000, v0 |-> FromKmh(18), grade_permille |-> 0, mu |-> 100, dt |-> 250]

\* scenario.json of the controller sessions: 60 m to go at 72 km/h
ScenarioTasc == [L |-> 600000, v0 |-> FromKmh(72), grade_permille |-> 0, mu |-> 100, dt |-> 250]

\* scenario.json of the unattended runs: 500 m to go at 72 km/h (20 m/s) on a
\* 3 % climb
ScenarioRun == [L |-> 5000000, v0 |-> FromKmh(72), grade_permille |-> 30, mu |-> 100, dt |-> 250]

\* payloads the client sends
NotchDeltas == {-1, 1}
\* the names _apply_command has a branch for (lines 662-676)
RecognizedNames == {"stepNotch", "release", "emergencyBrake", "setNotch", "setInternalNotch"}
\* command names applied in SpecApply: the recognized ones, applyNotch (which
\* queue_command lists but _apply_command has no branch for) and a foreign one
AppliedNames == RecognizedNames \cup {"applyNotch", "brake"}
AppliedValues == {-9, -1, 2, 9}
NotchValues == {-9, 2, 9}
\* number of commands and of sim_loop iterations in one behaviour of
\* SpecWhatIf
MaxWhatIfCmds == 2
MaxWhatIfLoops == 3

\* number of ticks in one behaviour of SpecWsp
MaxWspTicks == 12

\* the notches the what-if session asks the predictor about
WhatIfNotches == {2, 8}
InternalNotchValues == {-9, 9}
InitialPayloads ==
    { [speed |-> 36, dist |-> 100, grade |-> 0, mu |-> 100, random_mode |-> TRUE] }
OverrunPayloads ==
    { [speed |-> 216, dist |-> 100, grade |-> 0, mu |-> 100, random_mode |-> TRUE] }
AdvancePayloads == { [dist |-> 150, grade |-> 0] }
RequestedFiles == VehicleFiles \cup {"missing"}

World == [st |-> st, sim |-> sim, scn |-> scn, veh |-> veh, obs |-> obs]

\* sim_loop before its first iteration (lines 2144-2150): now is the wall
\* clock in ms and wake the time at which `await asyncio.sleep(dt)` ends.
\* pc is where sim_loop stands: "sleep" at its await (line 2209), where the
\* event loop may run recv_loop or send_loop, and "step" inside a call of
\* step(); tick is then the <<state, sim>> this call returns when it runs
\* to its end from the world it was called on.
NewLoop ==
    [ now |-> 0, wake |-> 0, t_start |-> None, step_count |-> 0,
      was_running |-> FALSE, was_finished |-> FALSE, was_paused |-> FALSE,
      pc |-> "sleep", tick |-> None ]

\* the locals of sim_loop after it has looked at state.finished and
\* state.paused (lines 2155-2180)
loop_detect(l, w) ==
    LET soft    == l.was_finished /\ ~w.st.finished /\ w.sim.running
        resumed == l.was_paused /\ ~w.st.paused
    IN  [l EXCEPT !.t_start = IF soft \/ resumed THEN Some(l.now) ELSE @,
                  !.step_count = IF soft \/ resumed THEN 0 ELSE @,
                  !.was_finished = w.st.finished,
                  !.was_paused = w.st.paused]

\* the locals before the for loop of a running, unpaused iteration (lines
\* 2183-2187) and at the end of any other iteration (lines 2201-2207)
loop_reference(l, w) ==
    IF w.sim.running /\ ~w.st.paused
    THEN IF l.was_running THEN l
         ELSE [l EXCEPT !.t_start = Some(l.now), !.step_count = 0, !.was_running = TRUE]
    ELSE [l EXCEPT !.was_running = FALSE, !.t_start = None, !.step_count = 0]

\* expected_steps (line 2190); dt is sim.scn.dt, which no handler assigns
expected_steps(l, w) == TruncDiv(l.now - l.t_start[1], w.scn.dt)

\* an iteration that does not record the ticks it has run
loop_owed_stale(l0, l, w) ==
    IF w.sim.running /\ ~w.st.paused
    THEN [ loop  |-> l,
           n     |-> Max(0, expected_steps(l, w) - l.step_count),
           fresh |-> l.t_start # l0.t_start \/ l.step_count # l0.step_count ]
    ELSE [ loop |-> l, n |-> 0, fresh |-> TRUE ]

\* one iteration of the while loop of sim_loop (lines 2152-2209) with locals
\* l on world w: the locals after it, the number n of step() calls of its
\* for loop, and whether it assigned t_start
loop_owed(l0, l, w) ==
    IF w.sim.running /\ ~w.st.paused
    THEN [ loop  |-> [l EXCEPT !.step_count = expected_steps(l, w)],
           n     |-> Max(0, expected_steps(l, w) - l.step_count),
           fresh |-> l.t_start # l0.t_start \/ l.step_count # l0.step_count ]
    ELSE [ loop |-> l, n |-> 0, fresh |-> TRUE ]

sim_loop_iteration(l, w) == loop_owed(l, loop_reference(loop_detect(l, w), w), w)

\* ws_endpoint up to the start of the loops (lines 1678-1713)
Connected(scenario) ==
    LET w0 == [st |-> NewState(0), sim |-> NewSim, scn |-> scenario,
               veh |-> VehicleA, obs |-> NewObs]
    IN  [reset(reset(w0)) EXCEPT !.sim.running = FALSE]

InitWith(scenario) ==
    /\ vehFile = "A"
    /\ st  = Connected(scenario).st
    /\ sim = Connected(scenario).sim
    /\ scn = Connected(scenario).scn
    /\ obs = NewObs
    /\ tasks = "running"
    /\ loop = NewLoop

Init == InitWith(ScenarioShort)

InitTasc == InitWith(ScenarioTasc)

InitRun == InitWith(ScenarioRun)

\* the variables after a command handler returned world w
Handled(w, name, o) ==
    /\ st'  = w.st
    /\ sim' = w.sim
    /\ scn' = w.scn
    /\ obs' = [o EXCEPT !.last = name, !.ncmd = obs.ncmd + 1,
                        !.wsp_t = IF w.sim.wsp_state = "normal" THEN 0 ELSE @,
                        !.wsp_in = None, !.ctl = None,
                        !.dropped = IF @ # None /\ @[1][3] = obs.ncmd + 1 THEN @ ELSE None,
                        !.eb_old = IF w.st.finished THEN None ELSE @]
    /\ tasks' = tasks
    /\ loop' = loop

SetInitial ==
    \E p \in InitialPayloads :
        \E w \in {recv_setInitial(World, p.speed, p.dist, p.grade, p.mu, p.random_mode)} :
            Handled(w, "setInitial", ObsReset(obs, World, w)) /\ UNCHANGED vehFile

SetInitialOverrun ==
    \E p \in OverrunPayloads :
        \E w \in {recv_setInitial(World, p.speed, p.dist, p.grade, p.mu, p.random_mode)} :
            Handled(w, "setInitial", ObsReset(obs, World, w)) /\ UNCHANGED vehFile

AdvanceStation ==
    \E p \in AdvancePayloads :
        \E w \in {recv_advanceStation(World, p.dist, p.grade, scn.mu)} :
            /\ Handled(w, "advanceStation",
                       IF ~sim.random_mode /\ ~st.finished THEN obs ELSE ObsReset(obs, World, w))
            /\ UNCHANGED vehFile

Start ==
    \E w \in {recv_start(World)} :
        Handled(w, "start", ObsReset(obs, World, w)) /\ UNCHANGED vehFile

Reset ==
    \E w \in {recv_reset(World)} :
        Handled(w, "reset", ObsReset(obs, World, w)) /\ UNCHANGED vehFile

StepNotch ==
    \E d \in NotchDeltas :
        \E w \in {recv_stepNotch(World, d)} :
            Handled(w, "stepNotch", obs) /\ UNCHANGED vehFile

Release ==
    \E w \in {recv_release(World)} :
        Handled(w, "release", obs) /\ UNCHANGED vehFile

EmergencyBrake ==
    \E w \in {recv_emergencyBrake(World)} :
        Handled(w, "emergencyBrake",
                [obs EXCEPT !.eb_cmd = TRUE, !.eb_old = Some(Len(w.sim.cmd_queue))])
        /\ UNCHANGED vehFile

SetNotch ==
    \E n \in NotchValues :
        \E w \in {recv_setNotch(World, n)} :
            Handled(w, "setNotch", obs) /\ UNCHANGED vehFile

\* a call of _apply_command (as at lines 603, 643, 1262 and 1887) with a
\* command of any name
ApplyCommand ==
    \E name \in AppliedNames : \E val \in AppliedValues :
        \E w \in {apply_command(World, [t |-> st.t, name |-> name, val |-> val])} :
            Handled(w, name, obs) /\ UNCHANGED vehFile

SetInternalNotch ==
    \E n \in InternalNotchValues :
        \E w \in {recv_setInternalNotch(World, n)} :
            Handled(w, "setInternalNotch", obs) /\ UNCHANGED vehFile

SetGrade ==
    \E grade \in {0, 2} :
        \E w \in {recv_setGrade(World, grade)} :
            Handled(w, "setGrade", obs) /\ UNCHANGED vehFile

SetMu ==
    \E value \in {30, 100} :
        \E w \in {recv_setMu(World, value)} :
            Handled(w, "setMu", ObsReset(obs, World, w)) /\ UNCHANGED vehFile

\* a message of Messages arrives; an exception that leaves recv_loop ends the
\* task, and ws_endpoint cancels sim_loop and send_loop and closes the socket
\* (lines 2228-2240)
Receive ==
    \E m \in Messages :
        \E r \in {recv_message(World, m)} :
            /\ st'  = r.w.st
            /\ sim' = r.w.sim
            /\ scn' = r.w.scn
            /\ obs' = [obs EXCEPT !.last = IF r.raised THEN "error" ELSE "message",
                                  !.ncmd = obs.ncmd + 1]
            /\ tasks' = IF r.raised THEN "cancelled" ELSE tasks
            /\ UNCHANGED <<vehFile, loop>>

AtcOverspeed ==
    \E val \in {0, 1} :
        \E w \in {recv_atcOverspeed(World, val)} :
            Handled(w, "atcOverspeed", obs) /\ UNCHANGED vehFile

SetTASC ==
    \E b \in BOOLEAN :
        \E w \in {recv_setTASC(World, b)} :
            Handled(w, "setTASC", obs) /\ UNCHANGED vehFile

ObstacleStopSuccess ==
    \E w \in {recv_obstacleStopSuccess(World)} :
        Handled(w, "obstacleStopSuccess", obs) /\ UNCHANGED vehFile

ObstacleStopFail ==
    \E w \in {recv_obstacleStopFail(World)} :
        Handled(w, "obstacleStopFail", obs) /\ UNCHANGED vehFile

SetVehicleFile ==
    \E f \in RequestedFiles :
        \E w \in {recv_setVehicleFile(World, f)} :
            /\ Handled(w, "setVehicleFile",
                       IF f \in VehicleFiles THEN ObsReset(obs, World, w) ELSE obs)
            /\ vehFile' = IF f \in VehicleFiles THEN f ELSE vehFile

Pause ==
    \E w \in {recv_pause(World)} : Handled(w, "pause", obs) /\ UNCHANGED vehFile

Resume ==
    \E w \in {recv_resume(World)} : Handled(w, "resume", obs) /\ UNCHANGED vehFile

\* the wall clock advances while every task waits
Wait ==
    \E d \in WaitMs :
        /\ loop.now + d <= MaxWallMs
        /\ loop' = [loop EXCEPT !.now = @ + d]
        /\ obs' = [obs EXCEPT !.last = "wait",
                              !.paused_ms = IF st.paused THEN @ + d ELSE @]
        /\ UNCHANGED <<st, sim, scn, vehFile, tasks>>

\* one iteration of sim_loop once its sleep has ended, with the step()
\* calls of its for loop
Iterate ==
    /\ loop.now >= loop.wake
    /\ \E it \in {sim_loop_iteration(loop, World)} :
        \E w \in {run_steps(World, it.n)} :
            /\ st'  = w.st
            /\ sim' = w.sim
            /\ scn' = w.scn
            /\ obs' = [w.obs EXCEPT
                         !.last = "iterate",
                         !.ref_ticks = (IF it.fresh THEN 0 ELSE obs.ref_ticks) + it.n,
                         !.paused_ms = IF it.fresh THEN 0 ELSE obs.paused_ms]
            /\ loop' = [it.loop EXCEPT !.wake = loop.now + scn.dt]
    /\ UNCHANGED <<vehFile, tasks>>

\* a step() that gave up the event loop after its TASC block
step_entered_await(l, w) ==
    [l EXCEPT !.pc = "sleep", !.tick = Some(<<step(w).st, step(w).sim>>)]

\* sim_loop once step(), called on world w, has run its TASC block (line
\* 1363): step() has no await, so sim_loop keeps the event loop
step_entered(l, w) ==
    [l EXCEPT !.pc = "step", !.tick = Some(<<step(w).st, step(w).sim>>)]

\* sim_loop stands at its await
Suspended == loop.pc = "sleep"

\* step() from its call to the end of the TASC block (lines 1257-1363)
StepHead ==
    /\ Suspended /\ loop.tick = None
    /\ sim.running /\ ~st.paused /\ obs.nloop < MaxLoops
    /\ \E p \in {step_parts(World)} :
        /\ st'  = p.ctl.st
        /\ sim' = p.ctl.sim
    /\ obs' = [obs EXCEPT !.last = "head"]
    /\ loop' = step_entered(loop, World)
    /\ UNCHANGED <<scn, vehFile, tasks>>

\* step() from the TASC block to its return (lines 1366-1532), and sim_loop
\* on to its await
StepTail ==
    /\ loop.tick # None
    /\ \E w \in {step_tail(World)} :
        /\ st'  = w.st
        /\ sim' = w.sim
    /\ obs' = [obs EXCEPT !.last = "step", !.nloop = obs.nloop + 1]
    /\ loop' = [loop EXCEPT !.pc = "sleep", !.tick = None]
    /\ UNCHANGED <<scn, vehFile, tasks>>

\* send_loop builds a snapshot and sends it (line 2215)
Snapshot ==
    /\ obs' = [obs EXCEPT !.last = "snapshot"]
    /\ UNCHANGED <<st, sim, scn, vehFile, tasks, loop>>

\* setVehicleFile naming a file whose load fails; what raised is caught at
\* lines 2056-2057
SetFailingFile ==
    \E f \in FailingFiles :
        \E w \in {recv_setVehicleFile(World, f)} :
            /\ Handled(w, "loadFailed", obs)
            /\ vehFile' = IF f = "nopower" THEN f ELSE vehFile

\* one iteration of sim_loop that runs k steps (lines 2182-2199)
Steps(k) ==
    /\ sim.running /\ ~st.paused
    /\ \E w \in {run_steps(World, k)} :
        /\ st'  = w.st
        /\ sim' = w.sim
        /\ scn' = w.scn
        /\ obs' = [w.obs EXCEPT !.last = "step", !.nloop = obs.nloop + 1]
    /\ UNCHANGED <<vehFile, tasks, loop>>

SimLoop == obs.nloop < MaxLoops /\ \E k \in LoopSteps : Steps(k)

\* the client may still send a command in this behaviour
CmdBudget == obs.ncmd < MaxCmds

\* the manual-driving session: every command but the controller's, and the
\* simulation loop
Next ==
    \/ CmdBudget /\ SetInitial
    \/ CmdBudget /\ AdvanceStation
    \/ CmdBudget /\ Start
    \/ CmdBudget /\ Reset
    \/ CmdBudget /\ StepNotch
    \/ CmdBudget /\ Release
    \/ CmdBudget /\ EmergencyBrake
    \/ CmdBudget /\ SetNotch
    \/ CmdBudget /\ ObstacleStopSuccess
    \/ CmdBudget /\ ObstacleStopFail
    \/ CmdBudget /\ SetVehicleFile
    \/ SimLoop

Spec == Init /\ [][Next]_vars

\* the controller session
NextTasc ==
    \/ CmdBudget /\ SetTASC
    \/ CmdBudget /\ SetInternalNotch
    \/ CmdBudget /\ Start
    \/ CmdBudget /\ Reset
    \/ SimLoop

SpecTasc == InitTasc /\ [][NextTasc]_vars

\* the notch session: the driver's lever, the internal notch and the
\* overspeed flag are set by hand on the short approach, the controller off
NextNotch ==
    \/ CmdBudget /\ Start
    \/ CmdBudget /\ SetNotch
    \/ CmdBudget /\ SetInternalNotch
    \/ CmdBudget /\ AtcOverspeed
    \/ SimLoop

SpecNotch == Init /\ [][NextNotch]_vars

\* the scenario session: the client changes the scenario (initial values,
\* grade, adhesion, vehicle file) before and during runs on the short
\* approach.  setTrainLength, setMassTons and setLoadRate, which recompute
\* the running resistance and call reset(), are not modelled.
NextScn ==
    \/ CmdBudget /\ Start
    \/ CmdBudget /\ SetInitial
    \/ CmdBudget /\ SetGrade
    \/ CmdBudget /\ SetMu
    \/ CmdBudget /\ SetVehicleFile
    \/ SimLoop

SpecScn == Init /\ [][NextScn]_vars

\* the overrun session: the client sets a random-mode approach at 216 km/h,
\* which passes the stop mark within three ticks and finishes the run with
\* the train still moving and sim.running still set, and works the lever
\* before and after that
NextOverrun ==
    \/ CmdBudget /\ SetInitialOverrun
    \/ CmdBudget /\ Start
    \/ CmdBudget /\ StepNotch
    \/ CmdBudget /\ EmergencyBrake
    \/ SimLoop

SpecOverrun == Init /\ [][NextOverrun]_vars

\* the timed session: the wall clock advances, sim_loop iterates whenever
\* its sleep has ended (or later), and the client starts, pauses, resumes
\* and resets the run at any time
NextLoop ==
    \/ CmdBudget /\ Start
    \/ CmdBudget /\ Pause
    \/ CmdBudget /\ Resume
    \/ CmdBudget /\ Reset
    \/ Wait
    \/ Iterate

SpecLoop == Init /\ [][NextLoop]_vars

\* commands applied at rest, during the run and after the stop
NextApply ==
    \/ CmdBudget /\ Start
    \/ CmdBudget /\ ApplyCommand
    \/ SimLoop

SpecApply == Init /\ [][NextApply]_vars

\* the lever session: the driver works the lever at rest before the start,
\* during the run and after it has finished
NextLever ==
    \/ CmdBudget /\ Start
    \/ CmdBudget /\ StepNotch
    \/ CmdBudget /\ SetNotch
    \/ CmdBudget /\ Release
    \/ SimLoop

SpecLever == Init /\ [][NextLever]_vars

\* the station session: the run of the overrun session has been set up
\* (setInitial at 216 km/h in random mode); the client starts it, works the
\* lever and asks for the next station
InitAdvance ==
    \E p \in OverrunPayloads :
        \E w \in {recv_setInitial(Connected(ScenarioShort), p.speed, p.dist, p.grade,
                                   p.mu, p.random_mode)} :
            /\ vehFile = "A"
            /\ st  = w.st
            /\ sim = w.sim
            /\ scn = w.scn
            /\ obs = NewObs
            /\ tasks = "running"
            /\ loop = NewLoop

NextAdvance ==
    \/ CmdBudget /\ Start
    \/ CmdBudget /\ StepNotch
    \/ CmdBudget /\ EmergencyBrake
    \/ CmdBudget /\ AdvanceStation
    \/ SimLoop

SpecAdvance == InitAdvance /\ [][NextAdvance]_vars

\* the task session: step() is taken in two parts, and recv_loop and
\* send_loop run whenever sim_loop stands at its await
NextAtomic ==
    \/ Suspended /\ CmdBudget /\ SetTASC
    \/ Suspended /\ CmdBudget /\ SetInternalNotch
    \/ Suspended /\ CmdBudget /\ StepNotch
    \/ Suspended /\ CmdBudget /\ Start
    \/ Suspended /\ Snapshot
    \/ StepHead
    \/ StepTail

SpecAtomic == InitTasc /\ [][NextAtomic]_vars

\* the vehicle session: the client names vehicle files, some of which fail
\* to load, before and during runs
NextVeh ==
    \/ CmdBudget /\ Start
    \/ CmdBudget /\ StepNotch
    \/ CmdBudget /\ SetVehicleFile
    \/ CmdBudget /\ SetFailingFile
    \/ SimLoop

SpecVeh == Init /\ [][NextVeh]_vars

\* the message session: well-formed lever commands and the messages of
\* Messages, as long as the tasks of the connection run
NextMsg ==
    \/ CmdBudget /\ tasks = "running" /\ Start
    \/ CmdBudget /\ tasks = "running" /\ StepNotch
    \/ CmdBudget /\ tasks = "running" /\ Receive
    \/ tasks = "running" /\ SimLoop

SpecMsg == Init /\ [][NextMsg]_vars

\* the unattended session: the client switches the controller on or starts a
\* run while the simulation is not running
RunBudget == ~sim.running /\ obs.ncmd < MaxRunCmds

RunLoop == st.t < MaxRunMs /\ Steps(1)

NextRun ==
    \/ RunBudget /\ SetTASC
    \/ RunBudget /\ Start
    \/ RunLoop

SpecRun == InitRun /\ [][NextRun]_vars

\* the predictor session: _stopping_distance is asked for every braking notch
\* in a simulation that was reset on a level 500 m approach, for the adhesion
\* coefficient (per cent, setMu) and the speed (km/h, setInitial) the client
\* chose and either vehicle file
InitPredict ==
    \E f \in VehicleFiles, m \in {2, 5, 8, 10, 12, 15, 30, 60, 100}, v \in {18, 36, 54, 72} :
        \E w \in {recv_setVehicleFile(
                      Connected([ScenarioRun EXCEPT !.grade_permille = 0, !.mu = m,
                                                    !.v0 = FromKmh(v)]), f)} :
            /\ vehFile = f
            /\ st  = w.st
            /\ sim = w.sim
            /\ scn = w.scn
            /\ obs = NewObs
            /\ tasks = "running"
            /\ loop = NewLoop

\* the calls self._stopping_distance(n, v) of _tasc_predict (lines 1216-1222),
\* made for every braking notch n
Predict ==
    /\ obs.pred = <<>>
    /\ obs' = [obs EXCEPT !.last = "predict",
                          !.pred = [n \in 1..(veh.notches - 1) |->
                                       stopping_distance(World, n, scn.v0)]]
    /\ UNCHANGED <<st, sim, scn, vehFile, tasks, loop>>

SpecPredict == InitPredict /\ [][Predict]_vars

\* the rollout session: _stopping_distance is asked for one notch, traction
\* and neutral included, in a simulation that setInitial placed 500 m before
\* the stop on a level track or on a descent of 2 % or 3 %
InitRollout ==
    \E f \in VehicleFiles, g \in {-30, -20, 0}, v \in {18, 36, 72} :
        \E w \in {recv_setInitial(recv_setVehicleFile(Connected(ScenarioRun), f),
                                  v, 500, g, 100, FALSE)} :
            /\ vehFile = f
            /\ st  = w.st
            /\ sim = w.sim
            /\ scn = w.scn
            /\ obs = NewObs
            /\ tasks = "running"
            /\ loop = NewLoop

\* one call self._stopping_distance(n, v) (lines 1194-1197)
Rollout ==
    /\ obs.roll = None
    /\ \E n \in -1..(veh.notches - 1) :
          obs' = [obs EXCEPT !.last = "rollout",
                             !.roll = Some([ notch |-> n,
                                             dist  |-> stopping_distance(World, n, scn.v0),
                                             end   |-> IF n <= 0 THEN None
                                                       ELSE Some(rollout_end(World, n, scn.v0)) ])]
    /\ UNCHANGED <<st, sim, scn, vehFile, tasks, loop>>

SpecRollout == InitRollout /\ [][Rollout]_vars

\* scenario.json of the what-if session: 150 m to go at 9 km/h, ticks of
\* the rollout's 30 ms
ScenarioWhatIf == [L |-> 1500000, v0 |-> FromKmh(9), grade_permille |-> 0, mu |-> 100, dt |-> PredDt]

\* the tracks of the what-if session: a 2 % descent on dry rail and a level
\* track on slippery rail
WhatIfTracks == { [grade |-> -20, mu |-> 100], [grade |-> 0, mu |-> 10] }

\* the what-if session: a run in which the controller's predictor is called
\* once
InitWhatIf ==
    \E k \in WhatIfTracks :
        \E w \in {Connected([ScenarioWhatIf EXCEPT !.grade_permille = k.grade, !.mu = k.mu])} :
            /\ vehFile = "A"
            /\ st  = w.st
            /\ sim = w.sim
            /\ scn = w.scn
            /\ obs = NewObs
            /\ tasks = "running"
            /\ loop = NewLoop

\* one call self._stopping_distance(n, v) of _tasc_predict (lines 1216-1225)
\* at the current speed; the call assigns to locals only
WhatIf ==
    /\ obs.whatif = None
    /\ sim.running /\ ~st.finished
    /\ \E n \in WhatIfNotches :
          obs' = [obs EXCEPT
                    !.last = "whatif",
                    !.whatif = Some([ notch |-> n,
                                      start |-> rollout_start(World, st.v),
                                      dist  |-> stopping_distance(World, n, st.v),
                                      first_a |-> PredIter(veh, scn, n, scn.L - st.s,
                                                           rollout_start(World, st.v)).a,
                                      real_a |-> IF st.lever_notch = n /\ st.internal_notch <= n
                                                 THEN Some(dynamics(World).st.a)
                                                 ELSE None ])]
    /\ UNCHANGED <<st, sim, scn, vehFile, tasks, loop>>

\* sim_loop running four ticks in one iteration
WhatIfLoop == obs.nloop < MaxWhatIfLoops /\ Steps(4)

\* the client may still send a command in the what-if session
WhatIfBudget == obs.ncmd < MaxWhatIfCmds

NextWhatIf ==
    \/ WhatIfBudget /\ ~sim.running /\ Start
    \/ WhatIfBudget /\ sim.running /\ SetNotch
    \/ WhatIfBudget /\ sim.running /\ EmergencyBrake
    \/ WhatIfLoop
    \/ WhatIf

SpecWhatIf == InitWhatIf /\ [][NextWhatIf]_vars

\* scenario.json of the wheel-slip session: 500 m to go at 72 km/h on rail
\* with mu = 0.16, where the emergency brake of vehicle A (1.5 m/s^2) is
\* below its own adhesion limit 0.98 * mu * g and above the slip threshold
\* 0.85 * mu * g + 0.05
ScenarioWsp == [L |-> 5000000, v0 |-> FromKmh(72), grade_permille |-> 0, mu |-> 16, dt |-> 30]

InitWsp == InitWith(ScenarioWsp)

\* sim_loop running one tick
Tick == obs.nloop < MaxWspTicks /\ Steps(1)

\* the wheel-slip session: an emergency braking on slippery rail, tick by
\* tick, with releases and resets
NextWsp ==
    \/ CmdBudget /\ Start
    \/ CmdBudget /\ EmergencyBrake
    \/ CmdBudget /\ Release
    \/ CmdBudget /\ Reset
    \/ Tick

SpecWsp == InitWsp /\ [][NextWsp]_vars

\* number of commands and of ticks in one behaviour of SpecFirst
MaxFirstCmds == 4
MaxFirstTicks == 9

\* the notches the driver sets in the initial-brake sessions
BrakeNotches == {0, 1, 3}

SetBrakeNotch ==
    \E n \in BrakeNotches :
        \E w \in {recv_setNotch(World, n)} :
            Handled(w, "setNotch", obs) /\ UNCHANGED vehFile

\* sim_loop running one tick of the initial-brake session
FirstLoop == obs.nloop < MaxFirstTicks /\ Steps(1)

\* the initial-brake session: a manual approach in which the driver moves
\* the lever between 0, 1 and 3
NextFirst ==
    \/ obs.ncmd < MaxFirstCmds /\ ~sim.running /\ Start
    \/ obs.ncmd < MaxFirstCmds /\ sim.running /\ SetBrakeNotch
    \/ FirstLoop

SpecFirst == Init /\ [][NextFirst]_vars

\* number of commands and of ticks in one behaviour of SpecReset
MaxResetCmds == 4
MaxResetTicks == 2

ResetBudget == obs.ncmd < MaxResetCmds

\* sim_loop running one tick of the reset session
ResetLoop == obs.nloop < MaxResetTicks /\ Steps(1)

\* the reset session: an emergency braking on slippery rail and its release,
\* interrupted by the commands whose handlers call reset()
NextReset ==
    \/ ResetBudget /\ Start
    \/ ResetBudget /\ EmergencyBrake
    \/ ResetBudget /\ Release
    \/ ResetBudget /\ Reset
    \/ ResetBudget /\ SetInitial
    \/ ResetBudget /\ SetMu
    \/ ResetBudget /\ AdvanceStation
    \/ ResetLoop

SpecReset == InitWsp /\ [][NextReset]_vars

\* number of commands and of ticks in one behaviour of SpecOrder
MaxOrderCmds == 4
MaxOrderTicks == 3

OrderBudget == obs.ncmd < MaxOrderCmds

\* sim_loop running one tick of the command-order session
OrderLoop == obs.nloop < MaxOrderTicks /\ Steps(1)

\* the command-order session: the driver works the lever and pulls the
\* emergency brake during a run
NextOrder ==
    \/ OrderBudget /\ Start
    \/ OrderBudget /\ StepNotch
    \/ OrderBudget /\ SetNotch
    \/ OrderBudget /\ Release
    \/ OrderBudget /\ EmergencyBrake
    \/ OrderLoop

SpecOrder == Init /\ [][NextOrder]_vars

\* simulated time (ms) up to which SpecDwell follows a run
MaxDwellMs == 4000

\* scenario.json of the dwell sessions: the last 10 m of an approach at
\* 3 m/s, stepped at 25 ms, half the controller's minimum dwell
ScenarioDwell == [L |-> 100000, v0 |-> 30000, grade_permille |-> 0, mu |-> 100, dt |-> 25]

InitDwell == InitWith(ScenarioDwell)

\* sim_loop running one tick of the dwell session
DwellLoop == st.t < MaxDwellMs /\ Steps(1)

\* the dwell session: the client switches the controller on or starts a run
\* while the simulation is not running, then the run is followed tick by tick
NextDwell ==
    \/ RunBudget /\ SetTASC
    \/ RunBudget /\ Start
    \/ DwellLoop

SpecDwell == InitDwell /\ [][NextDwell]_vars

\* length of the notch histories the scoring session classifies
MaxHistLen == 5

\* the scoring session: the notch history a run recorded (lever notches from
\* -1, a traction notch, to 3, every order up to MaxHistLen entries, and the
\* two histories of the specification's scenario) is classified as the
\* completion branch of step() does (line 1462)
InitStair ==
    \E h \in UNION {[1..n -> -1..3] : n \in 0..MaxHistLen}
              \cup {<<0, 0, 1, 1, 2, 2, 3, 3, 2, 2, 1, 1>>, <<0, 1, 2, 3, 4, 5>>} :
        /\ vehFile = "A"
        /\ st  = Connected(ScenarioShort).st
        /\ sim = [Connected(ScenarioShort).sim EXCEPT !.notch_history = h]
        /\ scn = ScenarioShort
        /\ obs = NewObs
        /\ tasks = "running"
        /\ loop = NewLoop

Classify ==
    /\ obs.stair = None
    /\ obs' = [obs EXCEPT !.last = "classify",
                          !.stair = Some(is_stair_pattern(sim.notch_history))]
    /\ UNCHANGED <<st, sim, scn, vehFile, tasks, loop>>

SpecStair == InitStair /\ [][Classify]_vars

-----------------------------------------------------------------------------
(* Properties of manual driving, checked under Spec                        *)

\* the lever range _clamp_notch allows for the current vehicle
LeverInRange ==
    /\ st.lever_notch >= -Len(veh.forward_notch_accels)
    /\ st.lever_notch <= veh.notches - 2

\* C2: after any sequence of commands, ticks, resets, advanceStation and
\* vehicle changes the lever notch is within [-len(forward_notch_accels),
\* notches-2] of the current vehicle, or it is notches-1 and an
\* emergencyBrake command of the current run put it there.
C2_LeverWithinRangeOrEB ==
    LeverInRange \/ (st.lever_notch = veh.notches - 1 /\ obs.eb_cmd)

\* the world queue_command("emergencyBrake") returns from the current world
AfterEB == queue_command(World, "emergencyBrake", 0)

\* the emergency deceleration commanded at the current speed
EBAccel == effective_brake_accel(veh, scn, veh.notches - 1, st.v)

\* C6: from every reachable state with v > 0, queue_command("emergencyBrake")
\* returns with eb_used set, the lever at notches-1, and the brake blend
\* (brk_elec + brk_air, up to the rounding of the two shares) and the
\* filtered command acceleration at the commanded emergency deceleration;
\* nothing is left waiting in the command queue.
C6_EmergencyBrakeImmediate ==
    st.v > 0 =>
        /\ AfterEB.sim.eb_used
        /\ AfterEB.st.lever_notch = veh.notches - 1
        /\ Abs(AfterEB.sim.brk_elec + AfterEB.sim.brk_air - EBAccel) <= 1
        /\ AfterEB.sim.brk_accel = AfterEB.sim.brk_elec + AfterEB.sim.brk_air
        /\ AfterEB.sim.a_cmd_filt = EBAccel
        /\ AfterEB.sim.cmd_queue = sim.cmd_queue
        /\ EBAccel < 0

\* C6 witness: the emergencyBrake handler has just run on a moving train
C6_Witness ==
    /\ obs.last = "emergencyBrake"
    /\ st.v > 0
    /\ sim.eb_used
    /\ st.lever_notch = veh.notches - 1
    /\ sim.a_cmd_filt = EBAccel

\* every sum the penalties and bonuses of the finish block can add up to:
\* from -500 - 100 - 100 - 1000 to 300 + 300 + 300 + 500 + 500 + 500
RawScores == (-1700)..2400

\* C7: the score is unset or an integer in [0, 100], and a finished run has
\* its score and its stop error set; whatever the penalties and bonuses add
\* up to, the normalised score is in [0, 100] (evaluated once, on connection).
C7_ScoreInRange ==
    /\ st.score = None \/ (st.score[1] \in 0..100)
    /\ st.finished => (st.score # None /\ st.stop_error_m # None)
    /\ obs.last = "connect" => \A raw \in RawScores : normalize_score(raw) \in 0..100

\* C7 witness: a finished run whose score is strictly inside the band
C7_Witness ==
    /\ st.finished
    /\ st.score # None
    /\ st.score[1] > 0 /\ st.score[1] < 100

\* C9: the velocity is never negative.
C9_VelocityNonNegative == st.v >= 0

\* C9 witness: a step has floored the velocity at 0 while the acceleration
\* was still negative
C9_Witness ==
    /\ obs.last = "step"
    /\ st.v = 0
    /\ st.a < 0
    /\ IntegrateV(0, st.a, scn.dt) = 0
    /\ st.s > 0

\* C10: no tick of an unfinished run that ends with v > 0 leaves the position
\* where it was or behind it.
C10_PositionIncreasesWhileMoving == ~obs.back

\* C11: no tick of step(), the ticks at and after completion included,
\* changes the acceleration by more than j_max * dt (the bound with the
\* relaxation factor at its largest value 1).
C11_JerkBounded == ~obs.jerk_over

-----------------------------------------------------------------------------
(* Properties of the finished run, checked under SpecOverrun               *)

\* C18: every tick of a finished run leaves finished, the elapsed time, the
\* position, the velocity, the stop error and the score as they are, and a
\* finished run has its stop error and its score: both are assigned in the
\* completion tick and by no later tick.
C18_FrozenAfterFinished ==
    /\ ~obs.thawed
    /\ st.finished => st.stop_error_m # None /\ st.score # None

\* C18 witness: ticks ran on a finished run that had stopped past the mark
\* with the train still moving
C18_Witness ==
    /\ obs.last = "step" /\ obs.post_tick
    /\ st.finished /\ st.v > 0
    /\ st.stop_error_m # None /\ st.score # None

\* ticks are being executed, a command waits in the latency queue, and a tick
\* changes nothing but the recorded notch history: every later tick finds
\* the same clock and the command still waiting
StuckCommand ==
    /\ sim.running /\ ~st.paused
    /\ sim.cmd_queue # <<>>
    /\ [step(World) EXCEPT !.sim.notch_history = sim.notch_history] = World

\* ticks leave a stuck command stuck
StuckCommandIsStable == [][StuckCommand /\ obs'.last = "step" => StuckCommand']_vars

\* C15: no queued command stays pending forever while ticks keep being
\* executed, a command enqueued after the run has finished included; in the
\* finite-run form: no reachable state has ticks running that leave a queued
\* command and everything else as they are.
C15_QueuedCommandsGetApplied == ~StuckCommand

-----------------------------------------------------------------------------
(* Properties of the stopping-distance predictor, checked under            *)
(* SpecPredict                                                              *)

\* C12: for a fixed simulation state and speed the predicted stopping
\* distance of braking notch n+1 is at most that of notch n, for all braking
\* notches n, n+1 in 1 .. notches-1 and every adhesion coefficient.
C12_StopDistanceMonotone ==
    \A n \in 1..(Len(obs.pred) - 1) : obs.pred[n + 1] <= obs.pred[n]

-----------------------------------------------------------------------------
(* Properties of the staircase classification, checked under SpecStair     *)

\* q rises (weakly) to some entry and falls (weakly) from it
RisesThenFalls(q) ==
    \E k \in DOMAIN q :
        /\ \A i \in 1..(k - 1) : q[i] <= q[i + 1]
        /\ \A i \in k..(Len(q) - 1) : q[i] >= q[i + 1]

\* the staircase of the specification: the history without adjacent
\* duplicates and without everything up to the last traction entry rises,
\* then falls, and ends at notch 1 or 2
IsStaircase(history) ==
    LET q == remove_negative_values(remove_adjacent_duplicates(history))
    IN  q # <<>> /\ RisesThenFalls(q) /\ q[Len(q)] \in {1, 2}

\* C13: is_stair_pattern(history) is true exactly when the filtered history
\* rises then falls and ends at notch 1 or 2 (so [0,0,1,1,2,2,3,3,2,2,1,1] is
\* a staircase and [0,1,2,3,4,5] is not).
C13_StairExactlyWhenRisesThenFalls ==
    obs.stair # None => (obs.stair[1] <=> IsStaircase(sim.notch_history))

-----------------------------------------------------------------------------
(* Properties of the latency queue and of the effective notch, checked     *)
(* under SpecNotch                                                         *)

\* the latency queue is ordered by apply time
QueueOrdered ==
    \A i \in 1..(Len(sim.cmd_queue) - 1) : sim.cmd_queue[i].t <= sim.cmd_queue[i + 1].t

\* C14: the drain at the start of every tick applies exactly the queued
\* entries whose apply time is <= the simulation time, oldest first, and
\* leaves the others queued; the queue is always ordered by apply time.
C14_DrainDueInOrder == ~obs.drain_bad /\ QueueOrdered

\* C14 witness: the drain of a tick applied an entry that was due and held
\* back a younger one, and the applied command moved the lever
C14_Witness ==
    /\ obs.last = "step"
    /\ obs.held /\ obs.drained >= 1
    /\ st.lever_notch # 0

-----------------------------------------------------------------------------
(* Properties of the scenario commands, checked under SpecScn              *)

\* the state reset() leaves
InResetState == st.t = 0 /\ st.s = 0 /\ st.v = 0 /\ st.a = 0 /\ sim.cmd_queue = <<>>

\* C19: a command that changes the target distance, the initial speed, the
\* grade, the adhesion or the vehicle (setInitial, setGrade, setMu,
\* setVehicleFile) leaves the simulation in the reset state, and the grade
\* changes only where a run begins (t = 0).
C19_ScenarioChangeResets ==
    [][ /\ ( /\ obs'.last \in {"setInitial", "setGrade", "setMu", "setVehicleFile"}
             /\ (scn' # scn \/ vehFile' # vehFile) ) => InResetState'
        /\ scn'.grade_permille # scn.grade_permille => st'.t = 0 ]_vars

-----------------------------------------------------------------------------
(* Properties of the tick loop, checked under SpecLoop                     *)

\* ticks owed at the wall-clock time now since the reference point t_start
OwedTicks == (loop.now - loop.t_start[1]) \div scn.dt

\* C22: the tick loop never runs ahead of the wall clock: at every point the
\* number of ticks executed since the current reference point t_start is at
\* most floor((now - t_start) / dt), and an iteration leaves exactly that
\* many executed, so it runs the ticks owed since the previous iteration,
\* none skipped and none twice.
C22_TicksTrackWallClock ==
    loop.t_start # None =>
        /\ obs.ref_ticks <= OwedTicks
        /\ obs.last = "iterate" => obs.ref_ticks = OwedTicks

\* C22 witness: an iteration that came late caught up with more than one
\* tick, after an earlier iteration had run ticks from the same reference
C22_Witness ==
    /\ obs.last = "iterate" /\ loop.t_start # None
    /\ obs.ref_ticks >= 3
    /\ loop.now > loop.t_start[1] + obs.ref_ticks * scn.dt
    /\ obs.nloop = 0 /\ st.t = obs.ref_ticks * scn.dt

\* C23: after a resume the ticks executed never include ticks owed for the
\* paused interval: the ticks executed since the reference point are at most
\* the ones owed for the wall-clock time that passed unpaused since then.
C23_NoBacklogFromPause ==
    loop.t_start # None =>
        obs.ref_ticks * scn.dt <= (loop.now - loop.t_start[1]) - obs.paused_ms

\* while paused no tick is executed
NoTickWhilePaused == [][st.paused /\ obs'.last = "iterate" => st' = st /\ sim' = sim]_vars

-----------------------------------------------------------------------------
(* Properties of the lever commands, checked under SpecLever               *)

\* q is r without some of its oldest entries
IsSuffix(q, r) ==
    Len(q) <= Len(r) /\ q = SubSeq(r, Len(r) - Len(q) + 1, Len(r))

\* the notches a lever command of the given name can ask for
LeverTargets(name) ==
    IF name = "release" THEN {0}
    ELSE IF name = "stepNotch"
    THEN {clamp_notch(veh, st.lever_notch + d) : d \in NotchDeltas}
    ELSE {clamp_notch(veh, n) : n \in NotchValues}

\* C26: a stepNotch, setNotch or release issued at v <= 0.05 m/s is applied
\* at once and not placed in the queue; issued at a higher speed it is
\* placed in the queue once and leaves the lever alone; and the drain of a
\* tick applies a queued entry once and removes it.  So no notch command
\* moves the lever more than once.  (A lever command on a finished run
\* also drains the entries that are due, so the queue may lose its oldest
\* entries.)
C26_NotchCommandAppliedOnce ==
    [][obs'.last \in {"stepNotch", "setNotch", "release"} /\ obs'.ncmd # obs.ncmd
         => /\ ~obs'.drain_bad
            /\ IF st.v <= 500
               THEN /\ IsSuffix(sim'.cmd_queue, sim.cmd_queue)
                    /\ sim'.cmd_queue = sim.cmd_queue
                          => st'.lever_notch \in LeverTargets(obs'.last)
               ELSE /\ sim'.cmd_queue # <<>>
                    /\ sim'.cmd_queue[Len(sim'.cmd_queue)].name = obs'.last
                    /\ sim'.cmd_queue[Len(sim'.cmd_queue)].t = st.t + veh.tau_cmd
                    /\ \E e \in {sim'.cmd_queue[Len(sim'.cmd_queue)]} :
                          IsSuffix(sim'.cmd_queue, Append(sim.cmd_queue, e))
                    /\ Len(sim'.cmd_queue) = Len(sim.cmd_queue) + 1
                          => st'.lever_notch = st.lever_notch]_vars

\* C26 witness: two stepNotch commands issued at rest have each moved the
\* lever by one notch and left nothing in the queue
C26_Witness ==
    /\ obs.last = "stepNotch" /\ obs.ncmd = 2
    /\ st.v = 0 /\ st.lever_notch = 2
    /\ sim.cmd_queue = <<>>

-----------------------------------------------------------------------------
(* Properties of _apply_command, checked under SpecApply                    *)

\* C27: applying a command of any name leaves v, s, t and a (and every
\* other field but the ones named here) unchanged.  It changes at most the
\* lever notch, the internal notch and the eb_used flag, and the command
\* filter exactly when the resulting lever notch is a traction notch and
\* v = 0: the filter is then the traction-curve acceleration of that notch
\* at zero speed.  A name _apply_command has no branch for changes neither
\* notch.
C27_ApplyCommandFrame ==
    [][obs'.last \in AppliedNames /\ obs'.ncmd # obs.ncmd
         => /\ st'.v = st.v /\ st'.s = st.s /\ st'.t = st.t /\ st'.a = st.a
            /\ [st' EXCEPT !.lever_notch = st.lever_notch,
                           !.internal_notch = st.internal_notch] = st
            /\ [sim' EXCEPT !.eb_used = sim.eb_used,
                            !.a_cmd_filt = sim.a_cmd_filt] = sim
            /\ scn' = scn /\ vehFile' = vehFile
            /\ sim'.a_cmd_filt =
                  IF st'.lever_notch < 0 /\ st.v = 0
                  THEN compute_power_accel(veh, st'.lever_notch, 0)
                  ELSE sim.a_cmd_filt
            /\ obs'.last \notin RecognizedNames
                  => /\ st'.lever_notch = st.lever_notch
                     /\ st'.internal_notch = st.internal_notch]_vars

\* C27 witness: setNotch applied at rest put the lever on the highest
\* traction notch and set the filter to that notch's acceleration at v = 0
C27_Witness ==
    /\ obs.last = "setNotch" /\ obs.ncmd = 1
    /\ st.v = 0 /\ st.lever_notch = -Len(veh.forward_notch_accels)
    /\ sim.a_cmd_filt = compute_power_accel(veh, st.lever_notch, 0)
    /\ sim.a_cmd_filt > 0

-----------------------------------------------------------------------------
(* Properties of the stopping predictor's rollout, checked under           *)
(* SpecRollout                                                             *)

\* the rollout of the recorded call ended above the stop threshold of
\* 0.01 m/s: it left its loop at the distance cap or at the iteration cap
RolloutCapped ==
    /\ obs.roll # None
    /\ obs.roll[1].end # None
    /\ obs.roll[1].end[1].v > 100

\* C28: the rollout makes at most PredIterCap iterations; a braking notch
\* whose rollout ends at the iteration or distance cap with the speed not
\* at zero is reported an infinite stopping distance; a notch <= 0 is
\* reported an infinite stopping distance.
C28_CappedRolloutNeverStops ==
    obs.roll # None
        => /\ obs.roll[1].notch <= 0 => obs.roll[1].dist = Inf
           /\ obs.roll[1].end # None => obs.roll[1].end[1].k <= PredIterCap
           /\ RolloutCapped => obs.roll[1].dist = Inf

-----------------------------------------------------------------------------
(* Properties of one predictor call during a run, checked under SpecWhatIf *)

\* C29: the predictor's rollout starts from the current acceleration,
\* brake blend (electric and air), WSP state and timer and command filter
\* of the simulation, and the call leaves them and t, s, v, a and both
\* notches (the whole state, simulation object and scenario) unchanged.
C29_PredictorIsPureWhatIf ==
    [][obs'.last = "whatif" /\ obs'.whatif # obs.whatif
         => /\ st' = st /\ sim' = sim /\ scn' = scn
            /\ obs'.whatif[1].start.a = st.a
            /\ obs'.whatif[1].start.brk_elec = sim.brk_elec
            /\ obs'.whatif[1].start.brk_air = sim.brk_air
            /\ obs'.whatif[1].start.wsp_state = sim.wsp_state
            /\ obs'.whatif[1].start.wsp_timer = sim.wsp_timer
            /\ obs'.whatif[1].start.a_cmd_filt = sim.a_cmd_filt]_vars

\* C29 witness: the predictor was called in the middle of a braking, with
\* both brakes applied and the train decelerating, it returned a distance,
\* and the simulation still has the state the rollout started from
C29_Witness ==
    /\ obs.last = "whatif" /\ obs.whatif # None
    /\ obs.whatif[1].dist < Inf /\ obs.whatif[1].dist > 0
    /\ sim.brk_elec < 0 /\ sim.brk_air < 0
    /\ sim.a_cmd_filt < 0 /\ st.a < 0 /\ st.v > 0 /\ st.t > 0
    /\ obs.whatif[1].start.brk_elec = sim.brk_elec
    /\ obs.whatif[1].start.brk_air = sim.brk_air
    /\ obs.whatif[1].start.a = st.a

\* C30: for a braking notch n >= 1 one iteration of the rollout leaves the
\* same acceleration as the dynamics of step() with the lever on n, from the
\* same speed, grade, brake blend, WSP state, filter and acceleration and
\* with the same timestep.
C30_RolloutStepIsTickDynamics ==
    obs.whatif # None /\ obs.whatif[1].real_a # None
        => obs.whatif[1].first_a = obs.whatif[1].real_a[1]

-----------------------------------------------------------------------------
(* Properties of the wheel-slip protection, checked under SpecWsp          *)

\* the adhesion ceiling -0.85 * mu * g of _wsp_update
WspCeiling == -RDiv(85 * scn.mu * 981, 100)

\* C31: the wheel-slip protection changes state only in these ways: a tick
\* takes it from normal to release, and only with a braking demand more
\* than 0.05 m/s^2 beyond the adhesion ceiling at more than 3 km/h; a tick
\* takes it from release to reapply once it has been in release for its
\* dwell of 0.12 s (and no later than one tick after that); a tick takes it
\* from reapply to normal once it has been in reapply for 0.15 s; a command
\* that resets the simulation takes it to normal.
C31_WspCycle ==
    [][sim'.wsp_state # sim.wsp_state
         => \/ /\ obs'.last \in {"start", "reset"}
               /\ sim'.wsp_state = "normal"
            \/ /\ obs'.last = "step"
               /\ sim.wsp_state = "normal" /\ sim'.wsp_state = "release"
               /\ obs'.wsp_in # None /\ obs'.wsp_in[1][4] = "normal"
               /\ obs'.wsp_in[1][1] < WspCeiling - 500
               /\ Kmh(obs'.wsp_in[1][2]) > 30000
            \/ /\ obs'.last = "step"
               /\ sim.wsp_state = "release" /\ sim'.wsp_state = "reapply"
               /\ st'.t - obs.wsp_t >= 120
               /\ st'.t - obs.wsp_t <= 120 + scn.dt
            \/ /\ obs'.last = "step"
               /\ sim.wsp_state = "reapply" /\ sim'.wsp_state = "normal"
               /\ st'.t - obs.wsp_t >= 150
               /\ st'.t - obs.wsp_t <= 150 + scn.dt]_vars

\* C31 witness: the protection has gone once around the cycle and is in
\* release for the second time
C31_Witness ==
    /\ sim.wsp_state = "release" /\ obs.last = "step"
    /\ obs.wsp_t >= 120 + 150 + 2 * scn.dt
    /\ st.lever_notch = veh.notches - 1 /\ st.v > 0

\* the fraction (per cent) of the adhesion ceiling the protection allows
\* in a call made in the given state
WspFraction(state) ==
    IF state = "normal" THEN 50 ELSE IF state = "release" THEN 30 ELSE 80

\* C32: in every tick the brake acceleration _wsp_update returns is no
\* larger in magnitude than the one demanded from it, and in a tick that
\* triggers the protection or finds it in release or reapply it is at most
\* 0.5, 0.3 or 0.8 of the adhesion ceiling 0.85 * mu * g.
C32_WspOnlyLimits ==
    obs.last = "step" /\ obs.wsp_in # None
        => /\ Abs(obs.wsp_in[1][3]) <= Abs(obs.wsp_in[1][1])
           /\ Abs(obs.wsp_in[1][3]) * 100 <= WspFraction(obs.wsp_in[1][4]) * Abs(WspCeiling)

-----------------------------------------------------------------------------
(* Properties of the station advance, checked under SpecAdvance            *)

\* C25: an advanceStation that is accepted (the run is finished, or random
\* mode is on) keeps the position and the lever notch that was in effect
\* just before the command, and leaves the requested distance (150 m, the
\* smallest the handler allows) to go, the velocity 0, finished clear and
\* running set.
C25_AdvanceKeepsPositionAndNotch ==
    [][obs'.last = "advanceStation" /\ obs'.ncmd # obs.ncmd
         /\ (sim.random_mode \/ st.finished)
         => /\ st'.s = st.s
            /\ scn'.L - st'.s = 1500000
            /\ st'.v = 0 /\ ~st'.finished /\ sim'.running
            /\ st'.lever_notch = st.lever_notch]_vars

-----------------------------------------------------------------------------
(* Properties of the three tasks, checked under SpecAtomic                 *)

\* C24: command handling, ticks and snapshots never interleave inside a
\* tick: once step() has been called, the next thing that happens is its
\* return, with the state an uninterrupted call computes, so no command
\* handler writes a notch and no snapshot is taken in between.
C24_TickRunsToCompletion ==
    [][loop.tick # None => loop'.tick = None /\ <<st', sim'>> = loop.tick[1]]_vars

\* C24 witness: a tick is in progress in which the controller has just
\* written the internal notch, and a command is waiting in the queue
C24_Witness ==
    /\ loop.tick # None
    /\ sim.tasc_active /\ st.internal_notch > 0
    /\ sim.cmd_queue # <<>>

-----------------------------------------------------------------------------
(* Properties of the vehicle files, checked under SpecVeh                  *)

\* C21: a setVehicleFile command whose load fails has no effect: the
\* vehicle in use, the simulation state, the command queue, the running flag
\* and the scenario are after the command what they were before it.
C21_FailedLoadHasNoEffect ==
    [][obs'.last = "loadFailed" /\ obs'.ncmd # obs.ncmd
         => st' = st /\ sim' = sim /\ scn' = scn /\ vehFile' = vehFile]_vars

-----------------------------------------------------------------------------
(* Properties of the message handling, checked under SpecMsg               *)

\* C20: no message ends the session: after a message that is not valid JSON,
\* not a command, or a command with a missing or ill-typed payload value the
\* tasks of the connection still run, so later commands are accepted and the
\* tick loop goes on.
C20_MalformedInputNotFatal == tasks = "running"

-----------------------------------------------------------------------------
(* Properties of the automatic controller, checked under SpecTasc          *)

\* C1: every value the controller has written to internal_notch lies in
\* [1, notches-2], whatever the internal notch was before (a setInternalNotch
\* command included).
C1_TascWritesInRange ==
    \A p \in obs.tasc_out : 1 <= p[1] /\ p[1] <= p[2] - 2

\* C4: every armed -> active transition happened in phase "build", in the
\* first run and in the runs that reset() / start() began after a run in
\* which the controller was active.
C4_TakeoverInBuild ==
    \A p \in obs.takeovers : p[1] = "build"

\* C8: reset() is idempotent: from every reachable state a second reset()
\* right after the first changes nothing, the controller state (armed,
\* active, phase, peak notch) included.
C8_ResetIdempotent == reset(reset(World)) = reset(World)

\* C17: tasc_active goes from true to false only in reset(): no other
\* command (setTASC included) and no tick takes the controller out of
\* active.  reset() runs in the handlers of "reset" and "start".
C17_ActiveUntilReset ==
    [][sim.tasc_active /\ ~sim.tasc_active' => obs'.last \in {"reset", "start"}]_vars

-----------------------------------------------------------------------------
(* Properties of the unattended run, checked under SpecRun                 *)

\* C3: as long as the remaining distance has been above handoff + hysteresis
\* (251 m) in every state since the last reset(), the controller is not
\* active and has not written the internal notch.
C3_NoControlBeforeHandoff ==
    obs.far => (~sim.tasc_active /\ obs.writes = 0)

\* C3 witness: a tick of a moving train with the controller enabled and
\* armed, the handoff distance not yet reached
C3_Witness ==
    /\ obs.last = "step"
    /\ obs.far
    /\ sim.tasc_enabled /\ sim.tasc_armed
    /\ st.v > 0 /\ st.s > 0

\* the train has come to rest short of the stop window, the run unfinished,
\* under a controller that holds a brake notch: no later tick moves it
StoppedShort ==
    /\ sim.running /\ ~st.finished
    /\ sim.tasc_enabled /\ sim.tasc_active /\ sim.tasc_phase = "relax"
    /\ st.internal_notch >= 1 /\ st.lever_notch = 0
    /\ sim.cmd_queue = <<>>
    /\ st.v = 0 /\ st.a <= 0 /\ sim.a_cmd_filt <= 0
    /\ scn.L - st.s > 10000

\* C5: a run started with the controller enabled and armed (500 m to go,
\* 20 m/s, no manual input) reaches finished; in the finite-run form: no such
\* run comes to rest, unfinished, outside the stop window.
C5_RunReachesFinished == ~StoppedShort

\* once stopped short the run stays stopped short
StoppedShortIsStable == [][StoppedShort => StoppedShort']_vars


-----------------------------------------------------------------------------
(* Properties of the controller's notch changes, checked under SpecDwell   *)

\* C33: two consecutive changes of the internal notch made by the
\* controller within one run are at least tasc_hold_min_s of simulation
\* time apart, in the build and in the relax phase, and each change moves
\* the notch by exactly one step.
C33_ControllerDwell ==
    obs.ctl # None /\ obs.ctl[1].out # obs.ctl[1].cur
        => /\ Abs(obs.ctl[1].out - obs.ctl[1].cur) = 1
           /\ obs.ctl[1].prev # None
                => obs.ctl[1].t - obs.ctl[1].prev[1] >= tasc_hold_min_s

\* the controller lowers the notch in the relax phase exactly one dwell
\* after its previous change
C33_Witness ==
    /\ obs.ctl # None /\ obs.ctl[1].phase = "relax"
    /\ obs.ctl[1].out = obs.ctl[1].cur - 1
    /\ obs.ctl[1].prev # None
    /\ obs.ctl[1].t - obs.ctl[1].prev[1] = tasc_hold_min_s

\* C34: on a tick in phase build the controller raises the internal notch by
\* one, recording the peak, exactly when the notch is below the maximum
\* normal notch, the predicted stop at the notch exceeds the remaining
\* distance minus the deadband and the minimum dwell has elapsed; in every
\* other case, a dwell that has not elapsed included, the phase becomes
\* relax.
C34_BuildRule ==
    obs.ctl # None /\ obs.ctl[1].phase = "build"
        => LET c == obs.ctl[1]
           IN  IF c.below /\ c.long /\ c.dwell_ok
               THEN /\ c.out = c.cur + 1 /\ c.phase_out = "build"
                    /\ sim.tasc_peak_notch >= c.out
               ELSE c.out = c.cur /\ c.phase_out = "relax"

-----------------------------------------------------------------------------
(* Properties of the initial-brake criterion, checked under SpecFirst      *)

\* C35: under manual driving first_brake_done becomes true only if the lever
\* was held on one and the same notch 1 or 2 for at least one second,
\* entered from notch 0, before any notch of 3 or more was applied in that
\* run.
C35_InitialBrake ==
    obs.fb # None
        => /\ obs.fb[1].notch \in {1, 2}
           /\ obs.fb[1].from = Some(0)
           /\ (obs.fb[1].run - 1) * scn.dt >= 1000
           /\ ~obs.fb[1].hi

-----------------------------------------------------------------------------
(* Properties of reset(), checked under SpecReset                          *)

\* C36: reset() discards all pending commands: after a handler that called
\* it (reset, start, setInitial, setMu, an accepted advanceStation) the
\* latency queue is empty, so that no command enqueued before is applied
\* after it, the brake-blend values and the command filter are 0 and the
\* wheel-slip protection is normal.
C36_ResetDiscards ==
    [][ \/ obs'.last \in {"reset", "start", "setInitial", "setMu"}
        \/ obs'.last = "advanceStation" /\ (sim.random_mode \/ st.finished)
        => /\ sim'.cmd_queue = <<>>
           /\ sim'.brk_accel = 0 /\ sim'.brk_elec = 0 /\ sim'.brk_air = 0
           /\ sim'.a_cmd_filt = 0
           /\ sim'.wsp_state = "normal" /\ sim'.wsp_timer = 0 ]_vars

\* a reset during the release phase of the wheel-slip protection, with a
\* lever command still in the latency queue
C36_Witness ==
    /\ obs.dropped # None
    /\ obs.dropped[1][1] >= 1 /\ obs.dropped[1][2] = "release"
    /\ obs.last \in {"reset", "start", "setInitial", "setMu", "advanceStation"}
    /\ sim.cmd_queue = <<>> /\ sim.brk_accel = 0 /\ sim.wsp_state = "normal"

-----------------------------------------------------------------------------
(* Properties of the order of the driver's commands, checked under         *)
(* SpecOrder                                                               *)

\* C37: driver commands take effect in the order they were issued; in
\* particular, after an emergencyBrake command the lever stays at the
\* emergency notch until a command issued after it, or a reset, changes it:
\* a stepNotch, setNotch or release that was queued before the emergency
\* brake does not release it.
C37_CommandOrder == ~obs.eb_undone

-----------------------------------------------------------------------------
(* Properties of the relax phase, checked under SpecDwell                  *)

\* C38: once the controller is in phase relax it never raises the internal
\* notch again in that run: until a reset, a setTASC or the end of the run
\* the phase stays relax, and every change the controller makes lowers the
\* internal notch by one and leaves it at 1 or more.
C38_RelaxOnlyLowers ==
    [][ sim.tasc_phase = "relax" /\ obs'.last \notin {"start", "reset", "setTASC"}
        => /\ sim'.tasc_phase = "relax"
           /\ obs'.ctl # None /\ obs'.ctl[1].out # obs'.ctl[1].cur
                => /\ obs'.ctl[1].out = obs'.ctl[1].cur - 1
                   /\ obs'.ctl[1].out >= 1
           /\ obs'.last = "step" /\ st'.internal_notch # st.internal_notch
                => obs'.ctl # None /\ st'.internal_notch = st.internal_notch - 1 ]_vars

\* the controller, having built up to notch 4 and relaxed since, lowers the
\* internal notch to 1
C38_Witness ==
    /\ obs.last = "step" /\ obs.ctl # None
    /\ obs.ctl[1].phase = "relax" /\ obs.ctl[1].cur = 2 /\ obs.ctl[1].out = 1
    /\ sim.tasc_phase = "relax" /\ sim.tasc_peak_notch >= 4
    /\ st.internal_notch = 1 /\ ~st.finished

-----------------------------------------------------------------------------
(* Properties of the lever at the start of a run, checked under            *)
(* SpecAdvance                                                             *)

\* C39: a new run never starts with the lever at the emergency notch: after
\* a handler that called reset(), an accepted advanceStation included, the
\* lever notch is at most notches - 2, and outside random mode reset()
\* leaves the lever at 0 and running false.
C39_NoEmergencyStart ==
    obs.dropped # None
        => /\ st.lever_notch <= veh.notches - 2
           /\ obs.last = "reset" /\ ~sim.random_mode
                => st.lever_notch = 0 /\ ~sim.running

=============================================================================
